---- MODULE Spec2Model ----
(***************************************************************************)
(* Model of the mech_api ingestion pipeline: mtf_ingest.py (mechs) and     *)
(* blk_ingest.py (vehicles).  The store is the SQL database as it stands   *)
(* after each driver step (a commit or a rollback); a step is one          *)
(* iteration of a driver loop (process_folder) or one call of a pass from  *)
(* main().                                                                 *)
(***************************************************************************)
EXTENDS Integers, Sequences, FiniteSets, TLC

(***************************************************************************)
(* Bounds of the model.                                                    *)
(***************************************************************************)
MaxDocs == 2        \* documents handled by the drivers
MaxLines == 1       \* equipment lines of one location of a document
MaxMfg == 2         \* manufacturer names of one document
MaxSeen == 3        \* cap of staging_unresolved.seen_count
MaxArmorLines == 6  \* content lines of an armor block
MaxTags == 2        \* headers / tags of a document text handed to a parser
MaxJobs == 3        \* rows of the job table
MaxBv == 3          \* base_bv of a call ranges over -MaxBv..MaxBv and 2340

(***************************************************************************)
(* Nullable columns: NULL for an integer column, NullStr for a string.     *)
(***************************************************************************)
NULL == 0 - 1
NullStr == "NULL"

(***************************************************************************)
(* str(int) and int(str) on the identifiers the model uses.                *)
(***************************************************************************)
MulIds == {1}
Str(n) == IF n = 1 THEN "1" ELSE IF n = 2 THEN "2" ELSE "0"
IsIntLiteral(s) == s \in {"0", "1", "2", "5", "6", "8", "10", "99"}
ParseInt(s) ==
    CASE s = "1" -> 1 [] s = "2" -> 2 [] s = "5" -> 5 [] s = "6" -> 6
      [] s = "8" -> 8 [] s = "10" -> 10 [] s = "99" -> 99 [] OTHER -> 0

(***************************************************************************)
(* Equipment lines.  The regular expressions and substring tests of the    *)
(* classifiers are tabulated over the lines the model ingests.             *)
(***************************************************************************)
RawLines == {"Large Laser", "Heat Sink", "-Empty-", "Foo", "LRM Ammo"}

\* lines that several rules of a classifier match, lines the two classifiers
\* tell apart, and further spellings of the empty sentinel
ClassifierLines ==
    RawLines \cup {"Jump Jet", "Small Cockpit", "Large Engine", "Ammo Engine",
                   "Machine Gun", "- EMPTY -", "Empty", "-empty"}

EMPTY_TOKEN_VARIANTS == {"-empty-", "-empty", "empty", "- Empty -", "-Empty-", "- EMPTY -"}

Lower(s) ==
    CASE s = "Large Laser" -> "large laser"
      [] s = "Heat Sink" -> "heat sink"
      [] s = "-Empty-" -> "-empty-"
      [] s = "- Empty -" -> "- empty -"
      [] s = "- EMPTY -" -> "- empty -"
      [] s = "Foo" -> "foo"
      [] s = "LRM Ammo" -> "lrm ammo"
      [] s = "Jump Jet" -> "jump jet"
      [] s = "Small Cockpit" -> "small cockpit"
      [] s = "Large Engine" -> "large engine"
      [] s = "Ammo Engine" -> "ammo engine"
      [] s = "Machine Gun" -> "machine gun"
      [] s = "Empty" -> "empty"
      [] s = "Name" -> "name"
      [] s = "MUL ID" -> "mul id"
      [] OTHER -> s

LowerEmptyVariants == {Lower(v) : v \in EMPTY_TOKEN_VARIANTS}

\* re.sub(r"[^\w\s\-]", " ", s2).strip().lower(), whitespace collapsed;
\* the empty-sentinel spellings give None
normalize_token(s) ==
    IF s = NullStr THEN NullStr
    ELSE IF s = "" THEN NullStr
    ELSE IF Lower(s) \in LowerEmptyVariants THEN NullStr
    ELSE Lower(s)

\* "ammo" in t or re.search(r"\bamm?o\b", t)
MatchesAmmo(t) == t \in {"lrm ammo", "ammo engine"}
\* re.search(r"\b(lrm|srm|ml|gauss|laser|large|medium|small|ac|plasma|ppc)\b", t)
MatchesMtfWeapon(t) ==
    t \in {"large laser", "medium laser", "lrm ammo", "small cockpit", "large engine"}
\* any(kw in t for kw in ["actuator", ..., "heat sink", "jump jet"])
MatchesMtfComponent(t) ==
    t \in {"heat sink", "jump jet", "small cockpit", "large engine", "ammo engine"}
\* the two weapon_patterns of blk_ingest
MatchesBlkWeapon(t) ==
    t \in {"large laser", "medium laser", "lrm ammo", "small cockpit", "large engine",
           "machine gun"}
\* any(kw in t for kw in ["engine", "gyro", "sensor", "heat sink", "case", "armor"])
MatchesBlkComponent(t) == t \in {"heat sink", "large engine", "ammo engine"}

\* mtf_guess_parsed_type with the weapon keywords tested before the ammo
\* vocabulary
mtf_guess_parsed_type_WeaponFirst(raw_line) ==
    IF raw_line = NullStr THEN "unknown"
    ELSE LET t == Lower(raw_line) IN
         IF MatchesMtfWeapon(t) THEN "weapon"
         ELSE IF MatchesAmmo(t) THEN "ammo"
         ELSE IF MatchesMtfComponent(t) THEN "component"
         ELSE IF t \in LowerEmptyVariants THEN "empty"
         ELSE "unknown"

mtf_guess_parsed_type(raw_line) ==
    IF raw_line = NullStr THEN "unknown"
    ELSE LET t == Lower(raw_line) IN
         IF MatchesAmmo(t) THEN "ammo"
         ELSE IF MatchesMtfWeapon(t) THEN "weapon"
         ELSE IF MatchesMtfComponent(t) THEN "component"
         ELSE IF t \in LowerEmptyVariants THEN "empty"
         ELSE "unknown"

blk_guess_parsed_type(raw_line) ==
    IF raw_line = NullStr THEN "unknown"
    ELSE LET t == Lower(raw_line) IN
         IF MatchesAmmo(t) THEN "ammo"
         ELSE IF MatchesBlkWeapon(t) THEN "weapon"
         ELSE IF MatchesBlkComponent(t) THEN "component"
         ELSE IF t \in LowerEmptyVariants THEN "empty"
         ELSE "unknown"

\* ComponentNameOf without the keyword 'jump jet'
ComponentNameOf_NoJumpJet(raw_lower) ==
    CASE raw_lower = "heat sink" -> "heat_sink"
      [] OTHER -> NullStr

\* COMPONENT_KEYWORDS: the first keyword contained in the line gives the name
ComponentNameOf(raw_lower) ==
    CASE raw_lower = "heat sink" -> "heat_sink"
      [] raw_lower = "jump jet" -> "jump_jet"
      [] OTHER -> NullStr

(***************************************************************************)
(* Sequence helpers.                                                       *)
(***************************************************************************)
\* index of the first element of s satisfying Test, 0 when there is none
FirstIndex(s, Test(_)) ==
    IF \E i \in DOMAIN s : Test(s[i])
    THEN CHOOSE i \in DOMAIN s : Test(s[i]) /\ \A j \in 1..(i - 1) : ~Test(s[j])
    ELSE 0

(***************************************************************************)
(* The store: one field per table.  A table with an autoincrement primary  *)
(* key is a sequence and a row's id is its index (SQLite hands out         *)
(* max(rowid) + 1, so a rolled back id is handed out again); an            *)
(* association table is a set of id pairs.                                 *)
(*   db    the committed store                                             *)
(*   files the number of documents the drivers have handled                *)
(*   last  what the last driver step was (again: the step before it was    *)
(*         the same pass), its input and what it returned                  *)
(*   passes the resolution passes that run as processes of their own, each *)
(*         with its session, and the holder of the write lock of the store *)
(*   worker where the enrichment worker (bv_pv_worker.py) stands and the   *)
(*         batch of jobs it fetched                                        *)
(*   owner history: for every StagingRow, by id, the Unit whose ingestion  *)
(*         staged it                                                       *)
(***************************************************************************)
VARIABLES db, files, last, passes, worker, owner

vars == <<db, files, last, passes, worker, owner>>

EmptyDb ==
    [ mech |-> <<>>, location |-> <<>>, staging_slot |-> <<>>,
      slot |-> <<>>, weapon_instance |-> <<>>,
      vehicle |-> <<>>, vehicle_location |-> <<>>, staging_vehicle_slot |-> <<>>,
      vehicle_slot |-> <<>>, vehicle_weapon_instance |-> <<>>,
      vehicle_armor |-> <<>>,
      weapon |-> <<>>, weapon_alias |-> {}, component_type |-> <<>>,
      manufacturer |-> <<>>, mech_manufacturer |-> {}, vehicle_manufacturer |-> {},
      staging_unresolved |-> {}, loader_log |-> <<>>, bv_pv_job |-> <<>> ]

(***************************************************************************)
(* Parsed documents (ParsedMech, ParsedVehicle) the drivers hand to the    *)
(* staging writer.  locations / equipment is the dict in insertion order.  *)
(***************************************************************************)
MechNames == {"Atlas", "Locust"}
VehicleNames == {"Scorpion", "1"}
MfgNames == {"Acme"}
MechLocNames == {"Head"}
VehicleLocNames == {"Body"}

SeqsUpTo(S, n) == UNION {[1..k -> S] : k \in 0..n}
SeqsFrom1(S, n) == UNION {[1..k -> S] : k \in 1..n}

LocationDicts(names) ==
    {<<>>} \cup {<<[name |-> l, items |-> it]>> : l \in names, it \in SeqsFrom1(RawLines, MaxLines)}

ParsedMechs ==
    [ chassis : MechNames, mul_id : MulIds \cup {NULL},
      locations : LocationDicts(MechLocNames),
      manufacturer : SeqsUpTo(MfgNames, MaxMfg) ]

ParsedVehicles ==
    [ name : VehicleNames, mul_id : MulIds \cup {NULL},
      equipment : LocationDicts(VehicleLocNames),
      manufacturer : SeqsUpTo(MfgNames, MaxMfg),
      armor : {<<>>} ]

NoLast ==
    [ op |-> "none", again |-> FALSE, file |-> 0, parsed |-> <<>>, raised |-> FALSE,
      conflicts |-> 0, unit_id |-> NULL, staging_ids |-> <<>>, ret |-> <<0, 0>> ]

\* the processes running main() with --reconcile side by side
Procs == {1, 2}

IdlePass ==
    [ pc |-> "idle", wrote |-> FALSE, after |-> <<>>, updated |-> 0,
      token_map |-> <<>>, existing |-> {} ]

NoPasses == [lock |-> 0, proc |-> [p \in Procs |-> IdlePass]]

\* no StagingRow yet
NoOwner == [mech |-> <<>>, vehicle |-> <<>>]

\* the worker between two batches
IdleWorker == [pc |-> "idle", jobs |-> <<>>]

Init ==
    /\ db = EmptyDb
    /\ files = 0
    /\ last = NoLast
    /\ passes = NoPasses
    /\ worker = IdleWorker
    /\ owner = NoOwner

(***************************************************************************)
(* Catalog loader (load_equipment_csv.py): weapons by unique name, aliases *)
(* by unique alias string, each alias bound to an existing weapon.         *)
(***************************************************************************)
CatalogNames == {"large laser", "foo"}
AliasNames == {"large laser"}

WeaponByName(w, name) == FirstIndex(w.weapon, LAMBDA x : x = name)

AliasByName(w, alias) ==
    IF \E a \in w.weapon_alias : a.alias = alias
    THEN (CHOOSE a \in w.weapon_alias : a.alias = alias).weapon_id
    ELSE NULL

LoadWeapon(name) ==
    /\ WeaponByName(db, name) = 0
    /\ db' = [db EXCEPT !.weapon = Append(@, name)]
    /\ last' = [NoLast EXCEPT !.op = "load_weapon"]
    /\ UNCHANGED files
    /\ UNCHANGED <<passes, worker, owner>>

LoadAlias(alias, weapon_id) ==
    /\ weapon_id \in DOMAIN db.weapon
    /\ alias # db.weapon[weapon_id]
    /\ AliasByName(db, alias) = NULL
    /\ db' = [db EXCEPT !.weapon_alias = @ \cup {[alias |-> alias, weapon_id |-> weapon_id]}]
    /\ last' = [NoLast EXCEPT !.op = "load_alias"]
    /\ UNCHANGED files
    /\ UNCHANGED <<passes, worker, owner>>

(***************************************************************************)
(* Staging writer, mechs.                                                  *)
(***************************************************************************)
\* the job of the key that is pending
ExistingJob_PendingOnly(w, unit_kind, name, variant, mul_type) ==
    FirstIndex(w.bv_pv_job, LAMBDA j :
        /\ j.unit_kind = unit_kind
        /\ j.name = name
        /\ j.variant = variant
        /\ j.mul_type = mul_type
        /\ j.status = "pending")

\* the job of the key that is pending, processing or done (0: none)
ExistingJob(w, unit_kind, name, variant, mul_type) ==
    FirstIndex(w.bv_pv_job, LAMBDA j :
        /\ j.unit_kind = unit_kind
        /\ j.name = name
        /\ j.variant = variant
        /\ j.mul_type = mul_type
        /\ j.status \in {"pending", "processing", "done"})

\* the store after a call of enqueue_bv_pv_job
enqueue_bv_pv_job(w, unit_kind, name, variant, mul_type) ==
    IF name = "" \/ name = NullStr THEN w
    ELSE IF ExistingJob(w, unit_kind, name, variant, mul_type) # 0 THEN w
         ELSE [w EXCEPT !.bv_pv_job = Append(@,
                  [unit_kind |-> unit_kind, name |-> name, variant |-> variant,
                   mul_type |-> mul_type, status |-> "pending", attempts |-> 0,
                   last_error |-> NullStr, bv |-> NULL, pv |-> NULL])]

\* the id of the job enqueue_bv_pv_job returns (NULL for None)
EnqueuedJob(w, unit_kind, name, variant, mul_type) ==
    IF name = "" \/ name = NullStr THEN NULL
    ELSE IF ExistingJob(w, unit_kind, name, variant, mul_type) # 0
         THEN ExistingJob(w, unit_kind, name, variant, mul_type)
         ELSE Len(w.bv_pv_job) + 1

\* looks up the component type named by the first matching keyword, creating it
resolve_component_type(w, raw_text) ==
    LET comp_name == ComponentNameOf(Lower(raw_text))
        found == FirstIndex(w.component_type, LAMBDA x : x = comp_name)
    IN  IF raw_text = "" \/ comp_name = NullStr THEN [db |-> w, id |-> NULL]
        ELSE IF found # 0 THEN [db |-> w, id |-> found]
        ELSE [db |-> [w EXCEPT !.component_type = Append(@, comp_name)],
              id |-> Len(w.component_type) + 1]

RECURSIVE StageMechItems(_, _, _, _, _, _)
StageMechItems(w, parsed, source_filename, loc_name, items, idx) ==
    IF idx > Len(items) THEN w
    ELSE LET raw_line == items[idx]
             parsed_type == mtf_guess_parsed_type(raw_line)
             comp == IF parsed_type = "component"
                     THEN resolve_component_type(w, raw_line)
                     ELSE [db |-> w, id |-> NULL]
             s == [ file_name |-> source_filename,
                    mech_external_id |->
                        IF parsed.mul_id # NULL THEN Str(parsed.mul_id) ELSE NullStr,
                    location_name |-> loc_name,
                    slot_index |-> idx,
                    raw_text |-> raw_line,
                    parsed_name |-> normalize_token(raw_line),
                    parsed_type |-> parsed_type,
                    weapon_id |-> NULL,
                    component_type_id |-> comp.id,
                    resolved |-> FALSE,
                    resolution_hint |-> NullStr ]
         IN  StageMechItems([comp.db EXCEPT !.staging_slot = Append(@, s)],
                            parsed, source_filename, loc_name, items, idx + 1)

\* the loop over parsed.locations; the unique constraint u_mech_location
\* makes the flush of a second (mech_id, name) raise
RECURSIVE StageMechLocations(_, _, _, _, _)
StageMechLocations(sess, parsed, source_filename, mech_id, k) ==
    IF sess.raised \/ k > Len(parsed.locations) THEN sess
    ELSE LET loc_name == parsed.locations[k].name
             w == sess.db
         IN  IF \E i \in DOMAIN w.location :
                    w.location[i].mech_id = mech_id /\ w.location[i].name = loc_name
             THEN [sess EXCEPT !.raised = TRUE]
             ELSE StageMechLocations(
                    [sess EXCEPT !.db = StageMechItems(
                        [w EXCEPT !.location = Append(@, [mech_id |-> mech_id, name |-> loc_name])],
                        parsed, source_filename, loc_name, parsed.locations[k].items, 1)],
                    parsed, source_filename, mech_id, k + 1)

\* lookup-or-create the Manufacturer, insert the association; on
\* IntegrityError the handler calls session.rollback(), which ends the
\* session's transaction: the working store falls back to the committed one
RECURSIVE LinkManufacturers(_, _, _, _, _, _)
LinkManufacturers(sess, committed, table, unit_id, names, k) ==
    IF k > Len(names) THEN sess
    ELSE LET w == sess.db
             mname == names[k]
             found == FirstIndex(w.manufacturer, LAMBDA x : x = mname)
             w1 == IF found # 0 THEN w ELSE [w EXCEPT !.manufacturer = Append(@, mname)]
             m_id == IF found # 0 THEN found ELSE Len(w.manufacturer) + 1
             s2 == IF <<unit_id, m_id>> \in w1[table]
                   THEN [db |-> committed, conflicts |-> sess.conflicts + 1]
                   ELSE [sess EXCEPT !.db = [w1 EXCEPT ![table] = @ \cup {<<unit_id, m_id>>}]]
         IN  LinkManufacturers(s2, committed, table, unit_id, names, k + 1)

\* range of ids appended to a table between two stores
NewIds(before, after) == [i \in 1..(Len(after) - Len(before)) |-> Len(before) + i]

ingest_parsed_mech(committed, parsed, source_filename) ==
    LET mech_id == Len(committed.mech) + 1
        dup_mul_id == parsed.mul_id # NULL /\
                      \E i \in DOMAIN committed.mech : committed.mech[i].mul_id = parsed.mul_id
        w1 == [committed EXCEPT !.mech =
                  Append(@, [chassis |-> parsed.chassis, mul_id |-> parsed.mul_id])]
        w2 == enqueue_bv_pv_job(w1, "mech", parsed.chassis, NullStr, NullStr)
        s3 == StageMechLocations([db |-> w2, raised |-> FALSE], parsed,
                                 source_filename, mech_id, 1)
        s4 == LinkManufacturers([db |-> s3.db, conflicts |-> 0], committed,
                                "mech_manufacturer", mech_id, parsed.manufacturer, 1)
        w5 == [s4.db EXCEPT !.loader_log = Append(@,
                  [file_name |-> source_filename, status |-> "ok", message |-> "ingested"])]
    IN  IF dup_mul_id \/ s3.raised
        THEN [db |-> committed, raised |-> TRUE, conflicts |-> 0,
              unit_id |-> NULL, staging_ids |-> <<>>]
        ELSE [db |-> w5, raised |-> FALSE, conflicts |-> s4.conflicts, unit_id |-> mech_id,
              staging_ids |-> NewIds(committed.staging_slot, s3.db.staging_slot)]

\* one iteration of the loop of process_folder (mtf_ingest.py)
IngestMtf(parsed) ==
    /\ files < MaxDocs
    /\ LET r == ingest_parsed_mech(db, parsed, files + 1) IN
         /\ db' = IF r.raised
                  THEN [db EXCEPT !.loader_log = Append(@,
                          [file_name |-> files + 1, status |-> "failed",
                           message |-> "ingest_error"])]
                  ELSE r.db
         /\ last' = [NoLast EXCEPT !.op = "ingest_mech", !.file = files + 1,
                        !.parsed = parsed, !.raised = r.raised,
                        !.conflicts = r.conflicts, !.unit_id = r.unit_id, !.staging_ids = r.staging_ids]
         /\ owner' = [owner EXCEPT !.mech =
                         @ \o [k \in 1..Len(r.staging_ids) |-> r.unit_id]]
    /\ files' = files + 1
    /\ UNCHANGED <<passes, worker>>

(***************************************************************************)
(* Staging writer, vehicles.                                               *)
(***************************************************************************)
RECURSIVE StageVehicleItems(_, _, _, _, _, _)
StageVehicleItems(w, parsed, source_filename, loc_name, items, idx) ==
    IF idx > Len(items) THEN w
    ELSE LET raw_line == items[idx]
             s == [ file_name |-> source_filename,
                    vehicle_external_id |->
                        IF parsed.mul_id # NULL /\ parsed.mul_id # 0
                        THEN Str(parsed.mul_id) ELSE parsed.name,
                    location_name |-> loc_name,
                    slot_index |-> idx,
                    raw_text |-> raw_line,
                    parsed_name |-> normalize_token(raw_line),
                    parsed_type |-> blk_guess_parsed_type(raw_line),
                    weapon_id |-> NULL,
                    resolved |-> FALSE,
                    resolution_hint |-> NullStr ]
         IN  StageVehicleItems([w EXCEPT !.staging_vehicle_slot = Append(@, s)],
                               parsed, source_filename, loc_name, items, idx + 1)

\* the loop over parsed.equipment; the unique constraint u_vehicle_location
\* makes the flush of a second (vehicle_id, name) raise
RECURSIVE StageVehicleLocations(_, _, _, _, _)
StageVehicleLocations(sess, parsed, source_filename, vehicle_id, k) ==
    IF sess.raised \/ k > Len(parsed.equipment) THEN sess
    ELSE LET loc_name == parsed.equipment[k].name
             w == sess.db
         IN  IF \E i \in DOMAIN w.vehicle_location :
                    /\ w.vehicle_location[i].vehicle_id = vehicle_id
                    /\ w.vehicle_location[i].name = loc_name
             THEN [sess EXCEPT !.raised = TRUE]
             ELSE StageVehicleLocations(
                    [sess EXCEPT !.db = StageVehicleItems(
                        [w EXCEPT !.vehicle_location =
                            Append(@, [vehicle_id |-> vehicle_id, name |-> loc_name])],
                        parsed, source_filename, loc_name, parsed.equipment[k].items, 1)],
                    parsed, source_filename, vehicle_id, k + 1)

\* parse_armor with a non-numeric line taking a position, as 0
RECURSIVE parse_armor_Shift(_)
parse_armor_Shift(content_lines) ==
    IF content_lines = <<>> THEN <<>>
    ELSE LET aline == Head(content_lines)
             rest == parse_armor_Shift(Tail(content_lines))
         IN  IF aline = "" THEN rest
             ELSE IF IsIntLiteral(aline) THEN <<ParseInt(aline)>> \o rest
             ELSE <<0>> \o rest

\* the armor branch of parse_blk_text: int() of every non-blank content line,
\* a line int() raises on is passed over
RECURSIVE parse_armor(_)
parse_armor(content_lines) ==
    IF content_lines = <<>> THEN <<>>
    ELSE LET aline == Head(content_lines)
             rest == parse_armor(Tail(content_lines))
         IN  IF aline = "" THEN rest
             ELSE IF IsIntLiteral(aline) THEN <<ParseInt(aline)>> \o rest
             ELSE rest

armor_locations == <<"front", "left", "right", "rear", "turret">>

\* for i, points in enumerate(parsed.armor): if i < len(armor_locations): add
RECURSIVE StoreArmor(_, _, _, _)
StoreArmor(w, vehicle_id, armor, i) ==
    IF i > Len(armor) THEN w
    ELSE StoreArmor(
            IF i <= Len(armor_locations)
            THEN [w EXCEPT !.vehicle_armor = Append(@,
                    [vehicle_id |-> vehicle_id, location |-> armor_locations[i],
                     points |-> armor[i]])]
            ELSE w,
            vehicle_id, armor, i + 1)

VehicleByMulId(w, mul_id) == FirstIndex(w.vehicle, LAMBDA v : v.mul_id = mul_id)

ingest_parsed_vehicle(committed, parsed, source_filename) ==
    LET existing == IF parsed.mul_id # NULL /\ parsed.mul_id # 0
                    THEN VehicleByMulId(committed, parsed.mul_id) ELSE 0
        vehicle_id == IF existing # 0 THEN existing ELSE Len(committed.vehicle) + 1
        w1 == IF existing # 0 THEN committed
              ELSE [committed EXCEPT !.vehicle =
                      Append(@, [name |-> parsed.name, mul_id |-> parsed.mul_id])]
        s2 == StageVehicleLocations([db |-> w1, raised |-> FALSE], parsed,
                                    source_filename, vehicle_id, 1)
        w2a == StoreArmor(s2.db, vehicle_id, parsed.armor, 1)
        s3 == LinkManufacturers([db |-> w2a, conflicts |-> 0], committed,
                                "vehicle_manufacturer", vehicle_id, parsed.manufacturer, 1)
    IN  IF s2.raised
        THEN [db |-> committed, raised |-> TRUE, conflicts |-> 0,
              unit_id |-> NULL, staging_ids |-> <<>>]
        ELSE [db |-> s3.db, raised |-> FALSE, conflicts |-> s3.conflicts,
              unit_id |-> vehicle_id,
              staging_ids |-> NewIds(committed.staging_vehicle_slot,
                                     s2.db.staging_vehicle_slot)]

\* one iteration of the loop of process_folder (blk_ingest.py)
IngestBlk(parsed) ==
    /\ files < MaxDocs
    /\ LET r == ingest_parsed_vehicle(db, parsed, files + 1) IN
         /\ db' = IF r.raised THEN db ELSE r.db
         /\ last' = [NoLast EXCEPT !.op = "ingest_vehicle", !.file = files + 1,
                        !.parsed = parsed, !.raised = r.raised,
                        !.conflicts = r.conflicts, !.unit_id = r.unit_id, !.staging_ids = r.staging_ids]
         /\ owner' = [owner EXCEPT !.vehicle =
                         @ \o [k \in 1..Len(r.staging_ids) |-> r.unit_id]]
    /\ files' = files + 1
    /\ UNCHANGED <<passes, worker>>

(***************************************************************************)
(* Resolution engine.                                                      *)
(***************************************************************************)
\* match_weapon with the alias looked up before the exact name
match_weapon_AliasFirst(w, s) ==
    IF s.resolved /\ s.weapon_id # NULL /\ s.weapon_id # 0 THEN s
    ELSE IF s.parsed_name = NullStr THEN s
    ELSE LET exact == WeaponByName(w, s.parsed_name)
             alias == AliasByName(w, s.parsed_name)
         IN  IF alias # NULL
             THEN [s EXCEPT !.weapon_id = alias, !.resolved = TRUE,
                            !.resolution_hint = "alias"]
             ELSE IF exact # 0
             THEN [s EXCEPT !.weapon_id = exact, !.resolved = TRUE,
                            !.resolution_hint = "exact"]
             ELSE s

\* match_weapon without the skip of rows already resolved to a weapon
match_weapon_Rematch(w, s) ==
    IF s.parsed_name = NullStr THEN s
    ELSE LET exact == WeaponByName(w, s.parsed_name)
             alias == AliasByName(w, s.parsed_name)
         IN  IF exact # 0
             THEN [s EXCEPT !.weapon_id = exact, !.resolved = TRUE,
                            !.resolution_hint = "exact"]
             ELSE IF alias # NULL
             THEN [s EXCEPT !.weapon_id = alias, !.resolved = TRUE,
                            !.resolution_hint = "alias"]
             ELSE s

\* the body of the loop over the weapon rows: exact name, then alias
match_weapon(w, s) ==
    IF s.resolved /\ s.weapon_id # NULL /\ s.weapon_id # 0 THEN s
    ELSE IF s.parsed_name = NullStr THEN s
    ELSE LET exact == WeaponByName(w, s.parsed_name)
             alias == AliasByName(w, s.parsed_name)
         IN  IF exact # 0
             THEN [s EXCEPT !.weapon_id = exact, !.resolved = TRUE,
                            !.resolution_hint = "exact"]
             ELSE IF alias # NULL
             THEN [s EXCEPT !.weapon_id = alias, !.resolved = TRUE,
                            !.resolution_hint = "alias"]
             ELSE s

\* IsWeaponRow without the filter on the classification
IsWeaponRow_AnyType(s) == s.parsed_name # NullStr

\* rows = query(parsed_type == 'weapon', parsed_name != None)
IsWeaponRow(s) == s.parsed_type = "weapon" /\ s.parsed_name # NullStr

\* whether the weapon loop assigns to the row (updated += 1)
WeaponLoopUpdates(w, s) ==
    /\ IsWeaponRow(s)
    /\ ~(s.resolved /\ s.weapon_id # NULL /\ s.weapon_id # 0)
    /\ (WeaponByName(w, s.parsed_name) # 0 \/ AliasByName(w, s.parsed_name) # NULL)

\* IsComponentRow without the filter resolved == False
IsComponentRow_NoFilter(s) ==
    s.parsed_type = "component" /\ s.component_type_id # NULL

\* component_rows = query(parsed_type == 'component', component_type_id != None,
\*                        resolved == False)
IsComponentRow(s) ==
    s.parsed_type = "component" /\ s.component_type_id # NULL /\ s.resolved = FALSE

\* IsEmptyRow taking the unknown rows too
IsEmptyRow_WithUnknown(s) == s.parsed_type \in {"empty", "unknown"} /\ s.resolved = FALSE

\* empty_rows = query(parsed_type == 'empty', resolved == False)
IsEmptyRow(s) == s.parsed_type = "empty" /\ s.resolved = FALSE

\* one row through the three loops of resolve_staging
resolve_row(w, s) ==
    LET s1 == IF IsWeaponRow(s) THEN match_weapon(w, s) ELSE s
        s2 == IF IsComponentRow(s1)
              THEN [s1 EXCEPT !.resolved = TRUE, !.resolution_hint = "component"]
              ELSE s1
    IN  IF IsEmptyRow(s2)
        THEN [s2 EXCEPT !.resolved = TRUE, !.resolution_hint = "empty"]
        ELSE s2

\* unresolved = query(parsed_type == 'weapon',
\*                    weapon_id == None or resolved == False), rows without
\* a token skipped
IsUnresolvedRow(s) ==
    /\ s.parsed_type = "weapon"
    /\ (s.weapon_id = NULL \/ s.resolved = FALSE)
    /\ s.parsed_name # NullStr /\ s.parsed_name # ""

\* token_map: the first row of a token gives sample and example
TokenMap(rows) ==
    LET tokens == {rows[i].parsed_name : i \in {j \in DOMAIN rows : IsUnresolvedRow(rows[j])}}
    IN  [t \in tokens |->
            LET ids == {i \in DOMAIN rows : IsUnresolvedRow(rows[i]) /\ rows[i].parsed_name = t}
                first == CHOOSE i \in ids : \A j \in ids : i <= j
            IN  [sample_raw |-> rows[first].raw_text, example |-> first,
                 count |-> Cardinality(ids)]]

\* UpsertUnresolved replacing the count of an existing row
UpsertUnresolved_Reset(unresolved, token_map) ==
    {u \in unresolved : u.token \notin DOMAIN token_map}
    \cup {[ token |-> t,
            sample_raw |-> token_map[t].sample_raw,
            example_staging_id |-> token_map[t].example,
            seen_count |-> token_map[t].count ] : t \in DOMAIN token_map}

\* the upsert of staging_unresolved
UpsertUnresolved(unresolved, token_map) ==
    {u \in unresolved : u.token \notin DOMAIN token_map}
    \cup {[ token |-> t,
            sample_raw |-> token_map[t].sample_raw,
            example_staging_id |-> token_map[t].example,
            seen_count |->
                IF \E u \in unresolved : u.token = t
                THEN (CHOOSE u \in unresolved : u.token = t).seen_count + token_map[t].count
                ELSE token_map[t].count ] : t \in DOMAIN token_map}

resolve_staging(w) ==
    LET rows == w.staging_slot
        after == [i \in DOMAIN rows |-> resolve_row(w, rows[i])]
        updated == Cardinality({i \in DOMAIN rows : WeaponLoopUpdates(w, rows[i])})
                   + Cardinality({i \in DOMAIN rows : IsComponentRow(rows[i])})
                   + Cardinality({i \in DOMAIN rows : IsEmptyRow(rows[i])})
        token_map == TokenMap(after)
    IN  [ db |-> [w EXCEPT !.staging_slot = after,
                           !.staging_unresolved = UpsertUnresolved(@, token_map)],
          ret |-> <<updated, Cardinality(DOMAIN token_map)>> ]

resolve_vehicle_staging(w) ==
    LET rows == w.staging_vehicle_slot
        after == [i \in DOMAIN rows |->
                    IF IsWeaponRow(rows[i]) THEN match_weapon(w, rows[i]) ELSE rows[i]]
        updated == Cardinality({i \in DOMAIN rows : WeaponLoopUpdates(w, rows[i])})
        unresolved == Cardinality({i \in DOMAIN after :
                        /\ after[i].parsed_type = "weapon"
                        /\ (after[i].weapon_id = NULL \/ after[i].resolved = FALSE)})
    IN  [ db |-> [w EXCEPT !.staging_vehicle_slot = after],
          ret |-> <<updated, unresolved>> ]

\* main(): resolve_staging(session); session.commit()
ResolveMtf ==
    LET r == resolve_staging(db) IN
    /\ \A u \in r.db.staging_unresolved : u.seen_count <= MaxSeen
    /\ db' = r.db
    /\ last' = [NoLast EXCEPT !.op = "resolve_mech", !.again = (last.op = "resolve_mech"), !.ret = r.ret]
    /\ UNCHANGED files
    /\ UNCHANGED <<passes, worker, owner>>

\* main(): resolve_vehicle_staging(session); session.commit()
ResolveBlk ==
    LET r == resolve_vehicle_staging(db) IN
    /\ db' = r.db
    /\ last' = [NoLast EXCEPT !.op = "resolve_vehicle", !.again = (last.op = "resolve_vehicle"), !.ret = r.ret]
    /\ UNCHANGED files
    /\ UNCHANGED <<passes, worker, owner>>

(***************************************************************************)
(* Finalizer.                                                              *)
(***************************************************************************)
IsEmptyText(raw_text) ==
    raw_text # NullStr /\ raw_text # "" /\ Lower(raw_text) \in LowerEmptyVariants

\* MechOfRow falling back to the first mech when the reference finds none
MechOfRow_FirstMech(w, s) ==
    IF Len(w.mech) > 0 THEN 1 ELSE 0

\* mech = query(Mech).filter(Mech.mul_id == int(s.mech_external_id)).one_or_none(),
\* None when the reference is absent or int() raises
MechOfRow(w, s) ==
    IF s.mech_external_id = NullStr \/ s.mech_external_id = "" THEN 0
    ELSE IF ~IsIntLiteral(s.mech_external_id) THEN 0
    ELSE FirstIndex(w.mech, LAMBDA m : m.mul_id = ParseInt(s.mech_external_id))

\* by mul_id when the reference reads as an integer, otherwise the first
\* vehicle of that name
VehicleOfRow(w, s) ==
    IF s.vehicle_external_id = NullStr \/ s.vehicle_external_id = "" THEN 0
    ELSE IF IsIntLiteral(s.vehicle_external_id)
    THEN VehicleByMulId(w, ParseInt(s.vehicle_external_id))
    ELSE FirstIndex(w.vehicle, LAMBDA v : v.name = s.vehicle_external_id)

\* finalize_mech_row without the test for an existing Slot
finalize_mech_row_NoGuard(acc, s) ==
    LET w == acc.db
        mech == MechOfRow(w, s)
        found == FirstIndex(w.location,
                    LAMBDA l : l.mech_id = mech /\ l.name = s.location_name)
        loc_id == IF found # 0 THEN found ELSE Len(w.location) + 1
        w1 == IF found # 0 THEN w
              ELSE [w EXCEPT !.location =
                      Append(@, [mech_id |-> mech, name |-> s.location_name])]
        slot == [ location_id |-> loc_id, slot_index |-> s.slot_index,
                  raw_text |-> s.raw_text,
                  component_type_id |-> s.component_type_id,
                  note |-> IF IsEmptyText(s.raw_text) THEN "Empty" ELSE NullStr ]
        w2 == [w1 EXCEPT !.slot = Append(@, slot)]
        has_weapon == s.weapon_id # NULL /\ s.weapon_id # 0
        w3 == IF has_weapon
              THEN [w2 EXCEPT !.weapon_instance = Append(@,
                      [slot_id |-> Len(w2.slot), weapon_id |-> s.weapon_id, qty |-> 1])]
              ELSE w2
    IN  IF mech = 0 THEN acc
        ELSE [db |-> w3, created_slots |-> acc.created_slots + 1,
              created_winst |-> acc.created_winst + (IF has_weapon THEN 1 ELSE 0)]

\* finalize_mech_row without the test of the row's weapon id
finalize_mech_row_AlwaysInstance(acc, s) ==
    LET w == acc.db
        mech == MechOfRow(w, s)
        found == FirstIndex(w.location,
                    LAMBDA l : l.mech_id = mech /\ l.name = s.location_name)
        loc_id == IF found # 0 THEN found ELSE Len(w.location) + 1
        w1 == IF found # 0 THEN w
              ELSE [w EXCEPT !.location =
                      Append(@, [mech_id |-> mech, name |-> s.location_name])]
        existing_slot == \E i \in DOMAIN w1.slot :
                            /\ w1.slot[i].location_id = loc_id
                            /\ w1.slot[i].slot_index = s.slot_index
        slot == [ location_id |-> loc_id, slot_index |-> s.slot_index,
                  raw_text |-> s.raw_text,
                  component_type_id |-> s.component_type_id,
                  note |-> IF IsEmptyText(s.raw_text) THEN "Empty" ELSE NullStr ]
        w2 == [w1 EXCEPT !.slot = Append(@, slot)]
        has_weapon == TRUE
        w3 == IF has_weapon
              THEN [w2 EXCEPT !.weapon_instance = Append(@,
                      [slot_id |-> Len(w2.slot), weapon_id |-> s.weapon_id, qty |-> 1])]
              ELSE w2
    IN  IF mech = 0 THEN acc
        ELSE IF existing_slot THEN [acc EXCEPT !.db = w1]
        ELSE [db |-> w3, created_slots |-> acc.created_slots + 1,
              created_winst |-> acc.created_winst + (IF has_weapon THEN 1 ELSE 0)]

\* finalize_mech_row that passes over the rows without a weapon id
finalize_mech_row_WeaponsOnly(acc, s) ==
    LET w == acc.db
        mech == MechOfRow(w, s)
        found == FirstIndex(w.location,
                    LAMBDA l : l.mech_id = mech /\ l.name = s.location_name)
        loc_id == IF found # 0 THEN found ELSE Len(w.location) + 1
        w1 == IF found # 0 THEN w
              ELSE [w EXCEPT !.location =
                      Append(@, [mech_id |-> mech, name |-> s.location_name])]
        existing_slot == \E i \in DOMAIN w1.slot :
                            /\ w1.slot[i].location_id = loc_id
                            /\ w1.slot[i].slot_index = s.slot_index
        slot == [ location_id |-> loc_id, slot_index |-> s.slot_index,
                  raw_text |-> s.raw_text,
                  component_type_id |-> s.component_type_id,
                  note |-> IF IsEmptyText(s.raw_text) THEN "Empty" ELSE NullStr ]
        w2 == [w1 EXCEPT !.slot = Append(@, slot)]
        has_weapon == s.weapon_id # NULL /\ s.weapon_id # 0
        w3 == IF has_weapon
              THEN [w2 EXCEPT !.weapon_instance = Append(@,
                      [slot_id |-> Len(w2.slot), weapon_id |-> s.weapon_id, qty |-> 1])]
              ELSE w2
    IN  IF mech = 0 \/ ~has_weapon THEN acc
        ELSE IF existing_slot THEN [acc EXCEPT !.db = w1]
        ELSE [db |-> w3, created_slots |-> acc.created_slots + 1,
              created_winst |-> acc.created_winst + (IF has_weapon THEN 1 ELSE 0)]

\* the body of the loop of finalize_slots_from_staging for one resolved row
finalize_mech_row(acc, s) ==
    LET w == acc.db
        mech == MechOfRow(w, s)
        found == FirstIndex(w.location,
                    LAMBDA l : l.mech_id = mech /\ l.name = s.location_name)
        loc_id == IF found # 0 THEN found ELSE Len(w.location) + 1
        w1 == IF found # 0 THEN w
              ELSE [w EXCEPT !.location =
                      Append(@, [mech_id |-> mech, name |-> s.location_name])]
        existing_slot == \E i \in DOMAIN w1.slot :
                            /\ w1.slot[i].location_id = loc_id
                            /\ w1.slot[i].slot_index = s.slot_index
        slot == [ location_id |-> loc_id, slot_index |-> s.slot_index,
                  raw_text |-> s.raw_text,
                  component_type_id |-> s.component_type_id,
                  note |-> IF IsEmptyText(s.raw_text) THEN "Empty" ELSE NullStr ]
        w2 == [w1 EXCEPT !.slot = Append(@, slot)]
        has_weapon == s.weapon_id # NULL /\ s.weapon_id # 0
        w3 == IF has_weapon
              THEN [w2 EXCEPT !.weapon_instance = Append(@,
                      [slot_id |-> Len(w2.slot), weapon_id |-> s.weapon_id, qty |-> 1])]
              ELSE w2
    IN  IF mech = 0 THEN acc
        ELSE IF existing_slot THEN [acc EXCEPT !.db = w1]
        ELSE [db |-> w3, created_slots |-> acc.created_slots + 1,
              created_winst |-> acc.created_winst + (IF has_weapon THEN 1 ELSE 0)]

\* the filter of the finalizers' query dropped: every row is read
IsFinalizable_Any(s) == TRUE

\* rows = query(StagingSlot).filter(StagingSlot.resolved == True), and the
\* same over StagingVehicleSlot
IsFinalizable(s) == s.resolved = TRUE

RECURSIVE FinalizeMechRows(_, _)
FinalizeMechRows(acc, i) ==
    IF i > Len(acc.db.staging_slot) THEN acc
    ELSE FinalizeMechRows(
            IF IsFinalizable(acc.db.staging_slot[i])
            THEN finalize_mech_row(acc, acc.db.staging_slot[i]) ELSE acc,
            i + 1)

finalize_slots_from_staging(w) ==
    FinalizeMechRows([db |-> w, created_slots |-> 0, created_winst |-> 0], 1)

\* the body of the loop of finalize_vehicle_slots for one resolved row
finalize_vehicle_row(acc, s) ==
    LET w == acc.db
        vehicle == VehicleOfRow(w, s)
        found == FirstIndex(w.vehicle_location,
                    LAMBDA l : l.vehicle_id = vehicle /\ l.name = s.location_name)
        loc_id == IF found # 0 THEN found ELSE Len(w.vehicle_location) + 1
        w1 == IF found # 0 THEN w
              ELSE [w EXCEPT !.vehicle_location =
                      Append(@, [vehicle_id |-> vehicle, name |-> s.location_name])]
        existing_slot == \E i \in DOMAIN w1.vehicle_slot :
                            /\ w1.vehicle_slot[i].location_id = loc_id
                            /\ w1.vehicle_slot[i].slot_index = s.slot_index
        slot == [ location_id |-> loc_id, slot_index |-> s.slot_index,
                  raw_text |-> s.raw_text,
                  component_type_id |-> NULL,
                  note |-> IF IsEmptyText(s.raw_text) THEN "Empty" ELSE NullStr ]
        w2 == [w1 EXCEPT !.vehicle_slot = Append(@, slot)]
        has_weapon == s.weapon_id # NULL /\ s.weapon_id # 0
        w3 == IF has_weapon
              THEN [w2 EXCEPT !.vehicle_weapon_instance = Append(@,
                      [slot_id |-> Len(w2.vehicle_slot), weapon_id |-> s.weapon_id, qty |-> 1])]
              ELSE w2
    IN  IF vehicle = 0 THEN acc
        ELSE IF existing_slot THEN [acc EXCEPT !.db = w1]
        ELSE [db |-> w3, created_slots |-> acc.created_slots + 1,
              created_winst |-> acc.created_winst + (IF has_weapon THEN 1 ELSE 0)]

RECURSIVE FinalizeVehicleRows(_, _)
FinalizeVehicleRows(acc, i) ==
    IF i > Len(acc.db.staging_vehicle_slot) THEN acc
    ELSE FinalizeVehicleRows(
            IF IsFinalizable(acc.db.staging_vehicle_slot[i])
            THEN finalize_vehicle_row(acc, acc.db.staging_vehicle_slot[i]) ELSE acc,
            i + 1)

finalize_vehicle_slots(w) ==
    FinalizeVehicleRows([db |-> w, created_slots |-> 0, created_winst |-> 0], 1)

\* main(): finalize_slots_from_staging(session); session.commit()
FinalizeMtf ==
    LET r == finalize_slots_from_staging(db) IN
    /\ db' = r.db
    /\ last' = [NoLast EXCEPT !.op = "finalize_mech", !.again = (last.op = "finalize_mech"),
                              !.ret = <<r.created_slots, r.created_winst>>]
    /\ UNCHANGED files
    /\ UNCHANGED <<passes, worker, owner>>

\* main(): finalize_vehicle_slots(session); session.commit()
FinalizeBlk ==
    LET r == finalize_vehicle_slots(db) IN
    /\ db' = r.db
    /\ last' = [NoLast EXCEPT !.op = "finalize_vehicle", !.again = (last.op = "finalize_vehicle"),
                              !.ret = <<r.created_slots, r.created_winst>>]
    /\ UNCHANGED files
    /\ UNCHANGED <<passes, worker, owner>>

(***************************************************************************)
(* Specifications.                                                         *)
(*   Spec        the whole pipeline over documents without manufacturers   *)
(*   SpecWriter  the staging writer over all documents                     *)
(***************************************************************************)
PipelineMechs == {p \in ParsedMechs : p.manufacturer = <<>> /\ p.chassis = "Atlas"}
PipelineVehicles == {p \in ParsedVehicles : p.manufacturer = <<>>}

Next ==
    \/ \E name \in CatalogNames : LoadWeapon(name)
    \/ \E alias \in AliasNames, weapon_id \in 1..2 : LoadAlias(alias, weapon_id)
    \/ \E parsed \in PipelineMechs : IngestMtf(parsed)
    \/ \E parsed \in PipelineVehicles : IngestBlk(parsed)
    \/ ResolveMtf
    \/ ResolveBlk
    \/ FinalizeMtf
    \/ FinalizeBlk

Spec == Init /\ [][Next]_vars

NextWriter ==
    \/ \E parsed \in ParsedMechs : IngestMtf(parsed)
    \/ \E parsed \in ParsedVehicles : IngestBlk(parsed)

SpecWriter == Init /\ [][NextWriter]_vars

(***************************************************************************)
(* Resolution passes run side by side (two invocations of main() with      *)
(* --reconcile against one store, no lock of their own).  A pass has two    *)
(* steps: BeginPass is everything up to the reads of staging_unresolved     *)
(* (the three loops with their flush, the query of the unresolved rows and  *)
(* session.query(StagingUnresolved).get(token)); CommitPass is the flush    *)
(* of the aggregate and session.commit().  A session that has flushed       *)
(* changes holds the write lock of the store until it commits: every other  *)
(* writer waits for it.                                                     *)
(***************************************************************************)
BeginPass(p) ==
    LET rows == db.staging_slot
        after == [i \in DOMAIN rows |-> resolve_row(db, rows[i])]
        r == resolve_staging(db)
        wrote == after # rows
    IN  /\ passes.proc[p].pc = "idle"
        /\ wrote => passes.lock = 0
        /\ passes' = [ lock |-> IF wrote THEN p ELSE passes.lock,
                       proc |-> [passes.proc EXCEPT ![p] =
                          [ pc |-> "read", wrote |-> wrote, after |-> after,
                            updated |-> r.ret[1], token_map |-> TokenMap(after),
                            existing |-> {u \in db.staging_unresolved :
                                            u.token \in DOMAIN TokenMap(after)} ]] ]
        /\ last' = [NoLast EXCEPT !.op = "begin_pass"]
        /\ UNCHANGED <<db, files, worker, owner>>

\* write_unresolved with the increment taken on the stored row
write_unresolved_Atomic(stored, existing, token_map) ==
    UpsertUnresolved(stored, token_map)

\* the rows of staging_unresolved after the flush: an UPDATE carries the
\* seen_count computed from the row as the session read it
write_unresolved(stored, existing, token_map) ==
    {u \in stored : u.token \notin DOMAIN token_map}
    \cup UpsertUnresolved(existing, token_map)

\* the INSERT of a token that another pass has inserted since the read
InsertConflict(stored, existing, token_map) ==
    \E t \in DOMAIN token_map :
        /\ ~\E e \in existing : e.token = t
        /\ \E u \in stored : u.token = t

CommitPass(p) ==
    LET sess == passes.proc[p]
        raised == InsertConflict(db.staging_unresolved, sess.existing, sess.token_map)
        unresolved == write_unresolved(db.staging_unresolved, sess.existing, sess.token_map)
    IN  /\ sess.pc = "read"
        /\ passes.lock \in {0, p}
        /\ \A u \in unresolved : u.seen_count <= MaxSeen
        /\ db' = IF raised THEN db
                 ELSE [db EXCEPT !.staging_slot = IF sess.wrote THEN sess.after ELSE @,
                                 !.staging_unresolved = unresolved]
        /\ passes' = [ lock |-> 0,
                       proc |-> [passes.proc EXCEPT ![p].pc =
                                    IF raised THEN "failed" ELSE "done"] ]
        /\ last' = [NoLast EXCEPT !.op = "commit_pass", !.raised = raised,
                       !.ret = <<sess.updated, Cardinality(DOMAIN sess.token_map)>>]
        /\ UNCHANGED <<files, worker, owner>>

RaceMechs ==
    {p \in PipelineMechs :
        p.locations = <<>> \/ p.locations[1].items \in {<<"Large Laser">>, <<"Heat Sink">>}}

NextRace ==
    \/ passes.lock = 0 /\ LoadWeapon("large laser")
    \/ \E parsed \in RaceMechs : passes.lock = 0 /\ IngestMtf(parsed)
    \/ passes.lock = 0 /\ ResolveMtf
    \/ \E p \in Procs : BeginPass(p)
    \/ \E p \in Procs : CommitPass(p)

SpecRace == Init /\ [][NextRace]_vars

(***************************************************************************)
(* The staging writer over one-line documents that cover the rules of the  *)
(* classifiers.                                                            *)
(***************************************************************************)
ClassifierMechs ==
    [ chassis : {"Atlas"}, mul_id : {NULL},
      locations : {<<[name |-> "Head", items |-> <<l>>]>> : l \in ClassifierLines},
      manufacturer : {<<>>} ]

ClassifierVehicles ==
    [ name : {"Scorpion"}, mul_id : {NULL},
      equipment : {<<[name |-> "Body", items |-> <<l>>]>> : l \in ClassifierLines},
      manufacturer : {<<>>}, armor : {<<>>} ]

NextClassify ==
    \/ \E parsed \in ClassifierMechs : IngestMtf(parsed)
    \/ \E parsed \in ClassifierVehicles : IngestBlk(parsed)

SpecClassify == Init /\ [][NextClassify]_vars

(***************************************************************************)
(* The pipeline over the mech document of the worked scenario: one         *)
(* location with the lines Large Laser, -Empty-, Jump Jet.                 *)
(***************************************************************************)
ScenarioLines == <<"Large Laser", "-Empty-", "Jump Jet">>

ScenarioMechs ==
    [ chassis : {"Atlas"}, mul_id : MulIds \cup {NULL},
      locations : {<<[name |-> "Head", items |-> ScenarioLines]>>},
      manufacturer : {<<>>} ]

NextScenario ==
    \/ \E name \in CatalogNames : LoadWeapon(name)
    \/ \E alias \in AliasNames, weapon_id \in 1..2 : LoadAlias(alias, weapon_id)
    \/ \E parsed \in ScenarioMechs : IngestMtf(parsed)
    \/ ResolveMtf
    \/ FinalizeMtf

SpecScenario == Init /\ [][NextScenario]_vars

(***************************************************************************)
(* The pipeline over one-line documents whose line is a spelling of the    *)
(* empty sentinel.                                                         *)
(***************************************************************************)
EmptyLines == {"-Empty-", "- EMPTY -", "- Empty -", "Empty", "-empty"}

EmptyMechs ==
    [ chassis : {"Atlas"}, mul_id : MulIds \cup {NULL},
      locations : {<<[name |-> "Head", items |-> <<l>>]>> : l \in EmptyLines},
      manufacturer : {<<>>} ]

EmptyVehicles ==
    [ name : {"Scorpion"}, mul_id : MulIds \cup {NULL},
      equipment : {<<[name |-> "Body", items |-> <<l>>]>> : l \in EmptyLines},
      manufacturer : {<<>>}, armor : {<<>>} ]

NextEmpty ==
    \/ \E parsed \in EmptyMechs : IngestMtf(parsed)
    \/ \E parsed \in EmptyVehicles : IngestBlk(parsed)
    \/ ResolveMtf
    \/ ResolveBlk
    \/ FinalizeMtf
    \/ FinalizeBlk

SpecEmpty == Init /\ [][NextEmpty]_vars

(***************************************************************************)
(* The vehicle writer over one document with an armor block: parse_blk_text *)
(* on the content lines of the armor tag, then ingest_parsed_vehicle.       *)
(***************************************************************************)
ArmorLineTexts == {"1", "2", "x"}

ArmorBlocks ==
    SeqsUpTo(ArmorLineTexts, MaxArmorLines)
    \cup {<<"10", "8", "8", "5", "6", "99">>, <<"10", "", "x", "8">>}

\* "\n".join(content_lines).strip() for the content of at most one line
TagContent(content_lines) ==
    IF content_lines = <<>> THEN "" ELSE content_lines[1]

\* the chain of tests on tag_lower in parse_blk_text for one tag; a tag no
\* branch names ends in the final else: pass
parse_blk_tag(parsed, tag) ==
    LET tag_lower == Lower(tag.name)
        content == TagContent(tag.content_lines)
    IN  CASE tag_lower = "name" -> [parsed EXCEPT !.name = content]
          [] tag_lower = "mul id:" ->
                IF IsIntLiteral(content) THEN [parsed EXCEPT !.mul_id = ParseInt(content)]
                ELSE parsed
          [] tag_lower = "armor" -> [parsed EXCEPT !.armor = parse_armor(tag.content_lines)]
          [] OTHER -> parsed

RECURSIVE ParseBlkTags(_, _, _)
ParseBlkTags(parsed, text, i) ==
    IF i > Len(text) THEN parsed
    ELSE ParseBlkTags(parse_blk_tag(parsed, text[i]), text, i + 1)

\* a document text is the sequence of its tags with their content lines
parse_blk_text(text) ==
    ParseBlkTags([ name |-> NullStr, mul_id |-> NULL, armor |-> <<>>, equipment |-> <<>>,
                   manufacturer |-> <<>>, raw_text |-> text ], text, 1)

ArmorTexts ==
    {<< [name |-> "Name", content_lines |-> <<"Scorpion">>],
        [name |-> "armor", content_lines |-> block] >> : block \in ArmorBlocks}

NextArmor ==
    \E text \in ArmorTexts : files = 0 /\ IngestBlk(parse_blk_text(text))

SpecArmor == Init /\ [][NextArmor]_vars

(***************************************************************************)
(* The two parsers on their own, over document texts of headers (MTF) and  *)
(* tags (BLK) the parsers know and ones they do not know.  A dict is the   *)
(* set of its (key, value) items.                                          *)
(***************************************************************************)
DictSet(d, key, val) == {e \in d : e[1] # key} \cup {<<key, val>>}

\* re.sub(r"\s+", " ", k.strip().lower()) on keys without surplus blanks
normalize_header_key(k) == Lower(k)

\* the branch of parse_mtf_text for a header line "hdr:val" with a value
parse_mtf_header(parsed, hdr, val) ==
    LET key_norm == normalize_header_key(hdr)
    IN  CASE key_norm = "chassis" -> [parsed EXCEPT !.chassis = val]
          [] key_norm = "mul id" ->
                IF IsIntLiteral(val) THEN [parsed EXCEPT !.mul_id = ParseInt(val)]
                ELSE [parsed EXCEPT !.specs = DictSet(@, "mul id", val)]
          [] OTHER -> [parsed EXCEPT !.specs = DictSet(@, key_norm, val)]

RECURSIVE ParseMtfLines(_, _, _)
ParseMtfLines(parsed, text, i) ==
    IF i > Len(text) THEN parsed
    ELSE ParseMtfLines(parse_mtf_header(parsed, text[i].name, text[i].val), text, i + 1)

\* a document text is the sequence of its header lines
parse_mtf_text(text) ==
    ParseMtfLines([ chassis |-> NullStr, mul_id |-> NULL, locations |-> <<>>,
                    manufacturer |-> <<>>, specs |-> {}, raw_text |-> text ], text, 1)

MtfHeaderLines == [name : {"chassis", "MUL ID", "Foo", "bar"}, val : {"Atlas", "1", "x"}]

BlkTags == [name : {"Name", "mul id:", "Foo", "bar"},
            content_lines : {<<"Scorpion">>, <<"1">>, <<>>}]

ParseMtf(text) ==
    /\ last' = [NoLast EXCEPT !.op = "parse_mtf", !.parsed = parse_mtf_text(text)]
    /\ UNCHANGED <<db, files, passes, worker, owner>>

ParseBlk(text) ==
    /\ last' = [NoLast EXCEPT !.op = "parse_blk", !.parsed = parse_blk_text(text)]
    /\ UNCHANGED <<db, files, passes, worker, owner>>

NextParse ==
    \/ \E text \in SeqsUpTo(MtfHeaderLines, MaxTags) : ParseMtf(text)
    \/ \E text \in SeqsUpTo(BlkTags, MaxTags) : ParseBlk(text)

SpecParse == Init /\ [][NextParse]_vars

(***************************************************************************)
(* The enrichment queue: callers of enqueue_bv_pv_job that commit, and the *)
(* worker of bv_pv_worker.py, whose process_job commits twice (the job is  *)
(* processing in the store while the helper script runs).                  *)
(***************************************************************************)
\* what the helper script printed, and json.loads of it (on failure of the
\* text from the first "[" to the last "]"): kind is error, dict or list, and
\* an entry of a list is a dict of items or something else
HelperOutputs ==
    { "", "no data", "{\"BV\": 1}", "[]", "[1]", "[{\"Name\": \"Atlas\"}]",
      "[{\"BV\": \"n/a\"}]", "[{\"BV\": \"2,340\"}]",
      "[{\"BV\": \"2,340\", \"PV\": \"55\"}]", "log [{\"pv\": \"55\"}] done" }

json_loads(out) ==
    CASE out = "{\"BV\": 1}" -> [kind |-> "dict", entries |-> <<>>]
      [] out = "[]" -> [kind |-> "list", entries |-> <<>>]
      [] out = "[1]" -> [kind |-> "list", entries |-> <<[dict |-> FALSE, items |-> <<>>]>>]
      [] out = "[{\"Name\": \"Atlas\"}]" ->
            [kind |-> "list", entries |-> <<[dict |-> TRUE, items |-> <<<<"Name", "Atlas">>>>]>>]
      [] out = "[{\"BV\": \"n/a\"}]" ->
            [kind |-> "list", entries |-> <<[dict |-> TRUE, items |-> <<<<"BV", "n/a">>>>]>>]
      [] out = "[{\"BV\": \"2,340\"}]" ->
            [kind |-> "list", entries |-> <<[dict |-> TRUE, items |-> <<<<"BV", "2,340">>>>]>>]
      [] out = "[{\"BV\": \"2,340\", \"PV\": \"55\"}]" ->
            [kind |-> "list",
             entries |-> <<[dict |-> TRUE, items |-> <<<<"BV", "2,340">>, <<"PV", "55">>>>]>>]
      [] out = "log [{\"pv\": \"55\"}] done" ->
            [kind |-> "list", entries |-> <<[dict |-> TRUE, items |-> <<<<"pv", "55">>>>]>>]
      [] OTHER -> [kind |-> "error", entries |-> <<>>]

\* the digits and minus signs of s read as an integer, NULL when int() fails
parse_int_like(s) ==
    CASE s = "2,340" -> 2340
      [] s = "55" -> 55
      [] OTHER -> NULL

\* the value of the last item of entry whose key is k in lower case
ItemValue(items, k) ==
    IF \E i \in DOMAIN items : Lower(items[i][1]) = k
    THEN LET i == CHOOSE i \in DOMAIN items :
                     /\ Lower(items[i][1]) = k
                     /\ \A j \in (i + 1)..Len(items) : Lower(items[j][1]) # k
         IN  parse_int_like(items[i][2])
    ELSE NULL

\* one run of the helper script: is pull.py there, did subprocess.run return,
\* its exit code and its output
HelperRuns ==
    [exists : {FALSE}, ran : {FALSE}, returncode : {0}, stdout : {""}]
    \cup [exists : {TRUE}, ran : {FALSE}, returncode : {0}, stdout : {""}]
    \cup [exists : {TRUE}, ran : {TRUE}, returncode : {0, 1}, stdout : HelperOutputs]

\* what the call returns (bv, pv), or that it raised
fetch_bv_pv_from_pull(run) ==
    LET parsed == json_loads(run.stdout)
        none == [raised |-> FALSE, bv |-> NULL, pv |-> NULL]
    IN  IF ~run.exists \/ ~run.ran \/ run.returncode # 0 \/ run.stdout = "" THEN none
        ELSE IF parsed.kind # "list" \/ parsed.entries = <<>> THEN none
        ELSE IF ~parsed.entries[1].dict THEN [raised |-> TRUE, bv |-> NULL, pv |-> NULL]
        ELSE [raised |-> FALSE, bv |-> ItemValue(parsed.entries[1].items, "bv"),
              pv |-> ItemValue(parsed.entries[1].items, "pv")]

JobKinds == {"mech", "vehicle"}

JobNames == {"Atlas", ""}

JobVariants == {NullStr, "AS7-D"}

JobMulTypes == {NullStr}

\* --limit of the worker
Limits == {1, 2}

\* a caller of enqueue_bv_pv_job that commits
Enqueue(unit_kind, name, variant, mul_type) ==
    /\ Len(enqueue_bv_pv_job(db, unit_kind, name, variant, mul_type).bv_pv_job) <= MaxJobs
    /\ db' = enqueue_bv_pv_job(db, unit_kind, name, variant, mul_type)
    /\ last' = [NoLast EXCEPT !.op = "enqueue",
                   !.parsed = [unit_kind |-> unit_kind, name |-> name,
                               variant |-> variant, mul_type |-> mul_type],
                   !.unit_id = EnqueuedJob(db, unit_kind, name, variant, mul_type)]
    /\ UNCHANGED <<files, passes, worker, owner>>

RECURSIVE PendingFrom(_, _)
PendingFrom(jobs, i) ==
    IF i > Len(jobs) THEN <<>>
    ELSE IF jobs[i].status = "pending" THEN <<i>> \o PendingFrom(jobs, i + 1)
    ELSE PendingFrom(jobs, i + 1)

\* the jobs of any status, oldest first
fetch_next_jobs_AnyStatus(w, limit) ==
    SubSeq([i \in DOMAIN w.bv_pv_job |-> i], 1,
           IF Len(w.bv_pv_job) < limit THEN Len(w.bv_pv_job) ELSE limit)

\* the pending jobs, oldest first, at most limit of them
fetch_next_jobs(w, limit) ==
    LET pending == PendingFrom(w.bv_pv_job, 1)
    IN  SubSeq(pending, 1, IF Len(pending) < limit THEN Len(pending) ELSE limit)

\* the worker's loop reads its next batch
FetchNextJobs(limit) ==
    /\ worker.pc = "idle"
    /\ worker' = IF fetch_next_jobs(db, limit) = <<>> THEN IdleWorker
                 ELSE [pc |-> "batch", jobs |-> fetch_next_jobs(db, limit)]
    /\ last' = [NoLast EXCEPT !.op = "fetch_next_jobs",
                   !.staging_ids = fetch_next_jobs(db, limit)]
    /\ UNCHANGED <<db, files, passes, owner>>

\* process_job up to its first commit
process_job_begin(job) ==
    [job EXCEPT !.status = "processing", !.attempts = @ + 1]

\* process_job from the call of the helper to its second commit
process_job_end(job, fetched) ==
    IF fetched.raised THEN [job EXCEPT !.status = "failed", !.last_error = "AttributeError"]
    ELSE IF fetched.bv = NULL /\ fetched.pv = NULL
    THEN [job EXCEPT !.status = "failed", !.last_error = "no data returned"]
    ELSE [job EXCEPT !.bv = fetched.bv, !.pv = fetched.pv, !.status = "done",
                     !.last_error = NullStr]

ProcessJobBegin ==
    /\ worker.pc = "batch"
    /\ db' = [db EXCEPT !.bv_pv_job[Head(worker.jobs)] = process_job_begin(@)]
    /\ worker' = [worker EXCEPT !.pc = "processing"]
    /\ last' = [NoLast EXCEPT !.op = "process_job_begin", !.unit_id = Head(worker.jobs)]
    /\ UNCHANGED <<files, passes, owner>>

ProcessJobEnd(run) ==
    /\ worker.pc = "processing"
    /\ db' = [db EXCEPT !.bv_pv_job[Head(worker.jobs)] =
                 process_job_end(@, fetch_bv_pv_from_pull(run))]
    /\ worker' = IF Tail(worker.jobs) = <<>> THEN IdleWorker
                 ELSE [pc |-> "batch", jobs |-> Tail(worker.jobs)]
    /\ last' = [NoLast EXCEPT !.op = "process_job", !.unit_id = Head(worker.jobs),
                   !.parsed = run, !.ret = fetch_bv_pv_from_pull(run)]
    /\ UNCHANGED <<files, passes, owner>>

NextJobs ==
    \/ \E unit_kind \in JobKinds, name \in JobNames, variant \in JobVariants,
          mul_type \in JobMulTypes : Enqueue(unit_kind, name, variant, mul_type)
    \/ \E limit \in Limits : FetchNextJobs(limit)
    \/ ProcessJobBegin
    \/ \E run \in HelperRuns : ProcessJobEnd(run)

SpecJobs == Init /\ [][NextJobs]_vars

(***************************************************************************)
(* The BV skill multiplier of mech_bv.py.  A multiplier of the table is    *)
(* held in thousandths, and the quotient of two of them as the pair        *)
(* <<numerator, denominator>>.                                             *)
(***************************************************************************)
Skills == 0..8

\* rows: gunnery 0..8, columns: piloting 0..8
BV_MULTIPLIER_MATRIX ==
    << <<2420, 2310, 2210, 2100, 1930, 1750, 1680, 1590, 1500>>,
       <<2210, 2110, 2020, 1920, 1760, 1600, 1540, 1446, 1380>>,
       <<1930, 1850, 1760, 1680, 1540, 1400, 1350, 1280, 1210>>,
       <<1660, 1580, 1510, 1440, 1320, 1200, 1160, 1100, 1040>>,
       <<1380, 1320, 1260, 1200, 1100, 1000, 950, 900, 850>>,
       <<1310, 1190, 1130, 1080, 990, 900, 860, 810, 770>>,
       <<1240, 1120, 1070, 1020, 940, 850, 810, 770, 720>>,
       <<1170, 1060, 1010, 960, 880, 800, 760, 720, 680>>,
       <<1100, 990, 950, 900, 830, 750, 710, 680, 640>> >>

get_multiplier_for(gunnery, piloting) == BV_MULTIPLIER_MATRIX[gunnery + 1][piloting + 1]

\* int() of the product without round(): the integer part
RoundProduct_Truncate(n, d) ==
    IF n >= 0 THEN {n \div d} ELSE {0 - ((0 - n) \div d)}

\* int(round(n / d)) for d > 0.  The product is a float: off a tie it rounds
\* as the exact quotient does, on a tie (the exact quotient ends in .5) the
\* float lies on either side of it
RoundProduct(n, d) ==
    LET q == n \div d
        r == n % d
    IN  IF 2 * r < d THEN {q}
        ELSE IF 2 * r > d THEN {q + 1}
        ELSE {q, q + 1}

\* the dicts compute_adjusted_bv can return
compute_adjusted_bv(base_bv, base_g, base_p, target_g, target_p) ==
    LET base_mult == get_multiplier_for(base_g, base_p)
        target_mult == get_multiplier_for(target_g, target_p)
    IN  { [ multiplier |-> <<target_mult, base_mult>>, adjusted_bv |-> adjusted,
            target_mult |-> target_mult, base_mult |-> base_mult ] :
          adjusted \in RoundProduct(base_bv * target_mult, base_mult) }

BvValues == ((0 - MaxBv)..MaxBv) \cup {2340}

BvCalls ==
    [base_bv : BvValues, base_g : Skills, base_p : Skills, target_g : Skills,
     target_p : Skills]

\* a caller holding the arguments of a call
InitBv ==
    /\ db = EmptyDb
    /\ files = 0
    /\ passes = NoPasses
    /\ worker = IdleWorker
    /\ owner = NoOwner
    /\ last \in {[NoLast EXCEPT !.op = "call", !.parsed = call] : call \in BvCalls}

ComputeAdjustedBv ==
    /\ last.op = "call"
    /\ \E res \in compute_adjusted_bv(last.parsed.base_bv, last.parsed.base_g,
                                      last.parsed.base_p, last.parsed.target_g,
                                      last.parsed.target_p) :
          last' = [last EXCEPT !.op = "compute_adjusted_bv", !.ret = res]
    /\ UNCHANGED <<db, files, passes, worker, owner>>

NextBv == ComputeAdjustedBv

SpecBv == InitBv /\ [][NextBv]_vars

(***************************************************************************)
(* Properties.                                                             *)
(***************************************************************************)
\* C1: a resolution pass run right after another of the same kind reports
\* zero newly-resolved rows and leaves every StagingRow as it was (mechs and
\* vehicles alike).
C1_ResolveTwice ==
    [][ /\ (last.op = "resolve_mech" /\ last'.op = "resolve_mech")
            => (last'.ret[1] = 0 /\ db'.staging_slot = db.staging_slot)
        /\ (last.op = "resolve_vehicle" /\ last'.op = "resolve_vehicle")
            => (last'.ret[1] = 0 /\ db'.staging_vehicle_slot = db.staging_vehicle_slot)
      ]_vars

\* a second mech pass in a row has run over a backlog holding resolved rows
C1_Witness ==
    /\ last.op = "resolve_mech" /\ last.again
    /\ \E i \in DOMAIN db.staging_slot : db.staging_slot[i].resolved

\* C2: no two Slots share (Location, slot index), and a finalization pass
\* run right after another creates no Slot and no WeaponInstance.
UniqueSlots(slots) ==
    \A i, j \in DOMAIN slots :
        (slots[i].location_id = slots[j].location_id
            /\ slots[i].slot_index = slots[j].slot_index) => i = j

C2_SlotsUnique ==
    /\ UniqueSlots(db.slot)
    /\ UniqueSlots(db.vehicle_slot)
    /\ (last.op \in {"finalize_mech", "finalize_vehicle"} /\ last.again)
            => last.ret = <<0, 0>>

\* a second mech finalization in a row, with Slots in the store
C2_Witness ==
    /\ last.op = "finalize_mech" /\ last.again
    /\ Len(db.slot) > 0

RECURSIVE TotalItems(_, _)
TotalItems(locations, k) ==
    IF k > Len(locations) THEN 0
    ELSE Len(locations[k].items) + TotalItems(locations, k + 1)

HasOkLog(d, file) ==
    \E i \in DOMAIN d.loader_log :
        d.loader_log[i].file_name = file /\ d.loader_log[i].status = "ok"

\* the Unit, Locations and StagingRows of the mech document are in d1
MechRowsCommitted(d0, d1, l) ==
    /\ Len(d1.mech) = Len(d0.mech) + 1
    /\ d1.mech[Len(d1.mech)] = [chassis |-> l.parsed.chassis, mul_id |-> l.parsed.mul_id]
    /\ Len(d1.location) = Len(d0.location) + Len(l.parsed.locations)
    /\ Len(d1.staging_slot) = Len(d0.staging_slot) + TotalItems(l.parsed.locations, 1)

AssociationsCommitted(d1, table, unit_id, names) ==
    \A k \in DOMAIN names :
        \E m \in DOMAIN d1.manufacturer :
            d1.manufacturer[m] = names[k] /\ <<unit_id, m>> \in d1[table]

MechDocCommitted(d0, d1, l) ==
    /\ MechRowsCommitted(d0, d1, l)
    /\ AssociationsCommitted(d1, "mech_manufacturer", Len(d1.mech), l.parsed.manufacturer)
    /\ HasOkLog(d1, l.file)

MechDocAbsent(d0, d1, l) ==
    /\ d1.mech = d0.mech /\ d1.location = d0.location
    /\ d1.staging_slot = d0.staging_slot
    /\ d1.mech_manufacturer = d0.mech_manufacturer
    /\ ~HasOkLog(d1, l.file)

\* the Unit (new or reused), Locations and StagingRows of the vehicle
\* document are in d1
VehicleRowsCommitted(d0, d1, l) ==
    /\ \/ d1.vehicle = d0.vehicle /\ l.parsed.mul_id # NULL
          /\ VehicleByMulId(d0, l.parsed.mul_id) # 0
       \/ d1.vehicle = Append(d0.vehicle,
                              [name |-> l.parsed.name, mul_id |-> l.parsed.mul_id])
    /\ Len(d1.vehicle_location) = Len(d0.vehicle_location) + Len(l.parsed.equipment)
    /\ Len(d1.staging_vehicle_slot) =
           Len(d0.staging_vehicle_slot) + TotalItems(l.parsed.equipment, 1)

VehicleDocCommitted(d0, d1, l) ==
    /\ VehicleRowsCommitted(d0, d1, l)
    /\ l.unit_id \in DOMAIN d1.vehicle
    /\ AssociationsCommitted(d1, "vehicle_manufacturer", l.unit_id, l.parsed.manufacturer)

VehicleDocAbsent(d0, d1, l) ==
    /\ d1.vehicle = d0.vehicle /\ d1.vehicle_location = d0.vehicle_location
    /\ d1.staging_vehicle_slot = d0.staging_vehicle_slot
    /\ d1.vehicle_manufacturer = d0.vehicle_manufacturer

\* C3: after the driver has handled a document, either the Unit, every
\* Location, every StagingRow, every association and the log record of the
\* document are committed, or none of them is in the store.
C3_AllOrNothing ==
    [][ /\ last'.op = "ingest_mech"
            => (MechDocCommitted(db, db', last') \/ MechDocAbsent(db, db', last'))
        /\ last'.op = "ingest_vehicle"
            => (VehicleDocCommitted(db, db', last') \/ VehicleDocAbsent(db, db', last'))
      ]_vars

\* C4: when an association insert of a document hits a duplicate conflict,
\* the document's Unit, Locations and StagingRows are still committed with
\* the document.
C4_ConflictKeepsDocument ==
    [][ /\ (last'.op = "ingest_mech" /\ last'.conflicts > 0)
            => MechRowsCommitted(db, db', last')
        /\ (last'.op = "ingest_vehicle" /\ last'.conflicts > 0)
            => VehicleRowsCommitted(db, db', last')
      ]_vars

\* C5: ingesting a document whose external id is that of a stored Unit
\* succeeds, returns that Unit's id, adds no Unit and leaves the Unit's
\* fields as they were, for mechs and for vehicles.
C5_ReuseByExternalId ==
    [][ /\ (last'.op = "ingest_mech" /\ last'.parsed.mul_id # NULL)
            => \A i \in DOMAIN db.mech :
                  db.mech[i].mul_id = last'.parsed.mul_id
                    => (~last'.raised /\ last'.unit_id = i /\ db'.mech = db.mech)
        /\ (last'.op = "ingest_vehicle" /\ last'.parsed.mul_id # NULL)
            => \A i \in DOMAIN db.vehicle :
                  db.vehicle[i].mul_id = last'.parsed.mul_id
                    => (~last'.raised /\ last'.unit_id = i /\ db'.vehicle = db.vehicle)
      ]_vars

\* C6: no two StagingRows have the same (Unit external-id reference,
\* location name, slot index).
C6_StagingKeysUnique ==
    /\ \A i, j \in DOMAIN db.staging_slot :
          (/\ db.staging_slot[i].mech_external_id = db.staging_slot[j].mech_external_id
           /\ db.staging_slot[i].location_name = db.staging_slot[j].location_name
           /\ db.staging_slot[i].slot_index = db.staging_slot[j].slot_index) => i = j
    /\ \A i, j \in DOMAIN db.staging_vehicle_slot :
          (/\ db.staging_vehicle_slot[i].vehicle_external_id
                  = db.staging_vehicle_slot[j].vehicle_external_id
           /\ db.staging_vehicle_slot[i].location_name
                  = db.staging_vehicle_slot[j].location_name
           /\ db.staging_vehicle_slot[i].slot_index
                  = db.staging_vehicle_slot[j].slot_index) => i = j

\* C7: a resolved StagingRow stays resolved, and a row resolved to a weapon
\* keeps its weapon id and its hint through every later step, whatever the
\* catalog gains.
RowsKeep(a, b) ==
    \A i \in DOMAIN a :
        /\ i \in DOMAIN b
        /\ a[i].resolved => b[i].resolved
        /\ (a[i].resolved /\ a[i].weapon_id # NULL)
              => (b[i].weapon_id = a[i].weapon_id
                  /\ b[i].resolution_hint = a[i].resolution_hint)

C7_NoBackward ==
    [][ /\ RowsKeep(db.staging_slot, db'.staging_slot)
        /\ RowsKeep(db.staging_vehicle_slot, db'.staging_vehicle_slot) ]_vars

\* a pass has run over a row resolved by alias after the catalog gained a
\* weapon named as the row's token
C7_Witness ==
    /\ last.op = "resolve_mech"
    /\ \E i \in DOMAIN db.staging_slot :
          /\ db.staging_slot[i].resolution_hint = "alias"
          /\ WeaponByName(db, db.staging_slot[i].parsed_name) # 0

\* C8: a resolved StagingRow has a weapon id with hint exact or alias, or is
\* a component row with a component-type id and hint component, or is an
\* empty row with hint empty.
ResolvedByWeapon(s) ==
    /\ s.parsed_type = "weapon" /\ s.weapon_id # NULL
    /\ s.resolution_hint \in {"exact", "alias"}

C8_ResolvedHasTarget ==
    /\ \A i \in DOMAIN db.staging_slot :
          LET s == db.staging_slot[i] IN
          s.resolved =>
             \/ ResolvedByWeapon(s) /\ s.component_type_id = NULL
             \/ /\ s.parsed_type = "component" /\ s.component_type_id # NULL
                /\ s.weapon_id = NULL /\ s.resolution_hint = "component"
             \/ /\ s.parsed_type = "empty" /\ s.component_type_id = NULL
                /\ s.weapon_id = NULL /\ s.resolution_hint = "empty"
    /\ \A i \in DOMAIN db.staging_vehicle_slot :
          db.staging_vehicle_slot[i].resolved => ResolvedByWeapon(db.staging_vehicle_slot[i])

\* a pass has resolved a component row and a weapon row
C8_Witness ==
    /\ last.op = "resolve_mech"
    /\ \E i, j \in DOMAIN db.staging_slot :
          /\ db.staging_slot[i].resolved /\ db.staging_slot[i].resolution_hint = "component"
          /\ db.staging_slot[j].resolved /\ db.staging_slot[j].weapon_id # NULL

\* C9: a row that becomes resolved is linked to the weapon named as its
\* token, with hint exact, when there is one; to the alias target, with
\* hint alias, only when no weapon has that name.
ExactPreferred(w, a, b) ==
    \A i \in DOMAIN a :
        (i \in DOMAIN b /\ ~a[i].resolved /\ b[i].resolved /\ b[i].parsed_type = "weapon")
          => IF WeaponByName(w, a[i].parsed_name) # 0
             THEN /\ b[i].weapon_id = WeaponByName(w, a[i].parsed_name)
                  /\ b[i].resolution_hint = "exact"
             ELSE /\ b[i].weapon_id = AliasByName(w, a[i].parsed_name)
                  /\ b[i].resolution_hint = "alias"

C9_ExactBeforeAlias ==
    [][ /\ ExactPreferred(db, db.staging_slot, db'.staging_slot)
        /\ ExactPreferred(db, db.staging_vehicle_slot, db'.staging_vehicle_slot) ]_vars

\* the pass has just resolved the one row by name while an alias of another
\* weapon equals its token
C9_Witness ==
    /\ last.op = "resolve_mech" /\ last.ret[1] > 0
    /\ Len(db.staging_slot) = 1
    /\ db.staging_slot[1].resolution_hint = "exact"
    /\ AliasByName(db, db.staging_slot[1].parsed_name) # NULL
    /\ AliasByName(db, db.staging_slot[1].parsed_name) # db.staging_slot[1].weapon_id

\* C10: after a resolution pass every component row carrying a
\* component-type id is resolved with hint component and every empty row is
\* resolved with hint empty, for mech rows and for vehicle rows.
C10_AutoResolved ==
    /\ last.op = "resolve_mech" =>
          \A i \in DOMAIN db.staging_slot :
             LET s == db.staging_slot[i] IN
             /\ (s.parsed_type = "component" /\ s.component_type_id # NULL)
                   => (s.resolved /\ s.resolution_hint = "component")
             /\ s.parsed_type = "empty" => (s.resolved /\ s.resolution_hint = "empty")
    /\ last.op = "resolve_vehicle" =>
          \A i \in DOMAIN db.staging_vehicle_slot :
             LET s == db.staging_vehicle_slot[i] IN
             s.parsed_type = "empty" => (s.resolved /\ s.resolution_hint = "empty")

\* the lower-cased names of the catalog: weapon names and aliases
CatalogTokens(w) ==
    {w.weapon[i] : i \in DOMAIN w.weapon} \cup {a.alias : a \in w.weapon_alias}

\* C11: a StagingRow classified ammo or unknown is never marked resolved,
\* whatever passes have run and whatever the catalog holds, and no Slot of
\* either grammar carries the text of such a row.
C11_AmmoUnknownNeverResolved ==
    /\ \A i \in DOMAIN db.staging_slot :
          db.staging_slot[i].parsed_type \in {"ammo", "unknown"}
          => /\ db.staging_slot[i].resolved = FALSE
             /\ db.staging_slot[i].weapon_id = NULL
    /\ \A i \in DOMAIN db.staging_vehicle_slot :
          db.staging_vehicle_slot[i].parsed_type \in {"ammo", "unknown"}
          => /\ db.staging_vehicle_slot[i].resolved = FALSE
             /\ db.staging_vehicle_slot[i].weapon_id = NULL
    /\ \A j \in DOMAIN db.slot :
          mtf_guess_parsed_type(db.slot[j].raw_text) \notin {"ammo", "unknown"}
    /\ \A j \in DOMAIN db.vehicle_slot :
          blk_guess_parsed_type(db.vehicle_slot[j].raw_text) \notin {"ammo", "unknown"}

\* an unknown row of an existing mech whose token the catalog names, staged
\* before a row that a later pass resolved, with a finalization pass run
C11_Witness ==
    /\ last.op = "finalize_mech"
    /\ Len(db.staging_slot) = 2
    /\ db.staging_slot[1].parsed_type = "unknown"
    /\ db.staging_slot[1].parsed_name \in CatalogTokens(db)
    /\ MechOfRow(db, db.staging_slot[1]) # 0
    /\ db.weapon = <<"foo", "large laser">>
    /\ db.staging_slot[2].resolved = TRUE
    /\ db.staging_slot[2].weapon_id = 2
    /\ db.staging_slot[1].resolved = FALSE
    /\ db.slot = <<>>

\* the tokens of the weapon-classified rows of a staging table that the
\* catalog does not name
UncatalogedTokens(w, rows) ==
    {rows[i].parsed_name : i \in {j \in DOMAIN rows :
        /\ rows[j].parsed_type = "weapon"
        /\ rows[j].parsed_name # NullStr
        /\ rows[j].parsed_name \notin CatalogTokens(w)}}

TimesStaged(rows, t) == Cardinality({i \in DOMAIN rows : rows[i].parsed_name = t})

\* after the first pass over a token: one UnresolvedToken row, seen_count = N
CountedOnce(w0, w1, rows) ==
    \A t \in UncatalogedTokens(w0, rows) :
        (~\E u \in w0.staging_unresolved : u.token = t)
        => /\ Cardinality({u \in w1.staging_unresolved : u.token = t}) = 1
           /\ \A u \in w1.staging_unresolved :
                 u.token = t => u.seen_count = TimesStaged(rows, t)

\* C12: when a token without a catalog name or alias has been staged N times
\* and a resolution pass then runs for the first time over it, exactly one
\* UnresolvedToken row exists for the token and its seen_count is N (mech and
\* vehicle documents).
C12_UnresolvedCountedOnce ==
    [][ /\ (last'.op = "resolve_mech" => CountedOnce(db, db', db.staging_slot))
        /\ (last'.op = "resolve_vehicle" => CountedOnce(db, db', db.staging_vehicle_slot)) ]_vars

\* ids of the weapon rows with token t that a store holds unresolved
UnresolvedIds(w, t) ==
    {i \in DOMAIN w.staging_slot :
        /\ w.staging_slot[i].parsed_type = "weapon"
        /\ w.staging_slot[i].parsed_name = t
        /\ (w.staging_slot[i].weapon_id = NULL \/ w.staging_slot[i].resolved = FALSE)}

\* what a pass from store w0 to store w1 does to the existing row u
AddedTo(w0, w1, u) ==
    LET ids == UnresolvedIds(w1, u.token)
        first == CHOOSE i \in ids : \A j \in ids : i <= j
    IN  \E v \in w1.staging_unresolved :
          /\ v.token = u.token
          /\ v.seen_count = u.seen_count + Cardinality(ids)
          /\ IF ids = {}
             THEN v = u
             ELSE /\ v.example_staging_id = first
                  /\ v.sample_raw = w1.staging_slot[first].raw_text

\* C13: the UnresolvedToken aggregate is additive and never reset: a
\* resolution pass adds to the seen_count of each existing row the number of
\* weapon rows with its token that are unresolved at that pass, and refreshes
\* sample and example; no step lowers a seen_count or removes a row, also
\* after the token has become resolvable.
C13_AggregateAdditive ==
    [][ /\ \A u \in db.staging_unresolved :
              \E v \in db'.staging_unresolved :
                  v.token = u.token /\ v.seen_count >= u.seen_count
        /\ (last'.op = "resolve_mech"
              => \A u \in db.staging_unresolved : AddedTo(db, db', u)) ]_vars

\* a token counted by two passes, then resolved: its row stays, with the count
C13_Witness ==
    /\ last.op = "resolve_mech"
    /\ \E u \in db.staging_unresolved :
          /\ u.seen_count >= 2
          /\ UnresolvedIds(db, u.token) = {}
          /\ Cardinality({i \in DOMAIN db.staging_slot :
                            db.staging_slot[i].parsed_name = u.token}) = 1

\* the stored seen_count of token t, 0 when there is no row
SeenCount(unresolved, t) ==
    IF \E u \in unresolved : u.token = t
    THEN (CHOOSE u \in unresolved : u.token = t).seen_count
    ELSE 0

\* the commit of pass p overwrites a count of token t that another pass has
\* added since p read the row
Overwrites(p, t) ==
    /\ passes.proc[p].pc = "read" /\ passes'.proc[p].pc = "done"
    /\ t \in DOMAIN passes.proc[p].token_map
    /\ \E e \in passes.proc[p].existing : e.token = t
    /\ SeenCount(db.staging_unresolved, t) > SeenCount(passes.proc[p].existing, t)

\* C14: resolution passes run side by side are not safe: when another pass
\* has committed its count of a token between the read and the commit of a
\* pass, the commit overwrites that update, and the stored seen_count is
\* smaller than the one the same passes give when run one after the other.
C14_LostUpdate ==
    [][ \A p \in Procs : \A t \in {"large laser"} :
          Overwrites(p, t)
          => /\ SeenCount(db'.staging_unresolved, t)
                  = SeenCount(passes.proc[p].existing, t) + passes.proc[p].token_map[t].count
             /\ SeenCount(db'.staging_unresolved, t)
                  < SeenCount(db.staging_unresolved, t) + passes.proc[p].token_map[t].count ]_vars

\* both passes read the same row, both committed: one count is lost
C14_Witness ==
    \E t \in {"large laser"} :
        /\ \A p \in Procs :
              /\ passes.proc[p].pc = "done"
              /\ t \in DOMAIN passes.proc[p].token_map
              /\ SeenCount(passes.proc[p].existing, t) = 1
              /\ passes.proc[p].token_map[t].count = 1
        /\ SeenCount(db.staging_unresolved, t) = 2

\* the WeaponInstances of a Slot
InstancesOf(wis, j) == {i \in DOMAIN wis : wis[i].slot_id = j}

\* what the claim says of Slot j: sources are the resolved StagingRows the
\* Slot can have been finalized from, kind is the classification of its text
InstanceRule(wis, j, sources, kind) ==
    /\ Cardinality(InstancesOf(wis, j)) <= 1
    /\ \A i \in InstancesOf(wis, j) :
          /\ wis[i].qty = 1
          /\ \E s \in sources : s.weapon_id # NULL /\ s.weapon_id = wis[i].weapon_id
    /\ (\E s \in sources : s.weapon_id # NULL) => InstancesOf(wis, j) # {}
    /\ kind \in {"component", "empty"} => InstancesOf(wis, j) = {}

MechSlotSources(w, j) ==
    {w.staging_slot[i] : i \in {k \in DOMAIN w.staging_slot :
        /\ w.staging_slot[k].resolved = TRUE
        /\ MechOfRow(w, w.staging_slot[k]) = w.location[w.slot[j].location_id].mech_id
        /\ w.staging_slot[k].location_name = w.location[w.slot[j].location_id].name
        /\ w.staging_slot[k].slot_index = w.slot[j].slot_index
        /\ w.staging_slot[k].raw_text = w.slot[j].raw_text}}

VehicleSlotSources(w, j) ==
    {w.staging_vehicle_slot[i] : i \in {k \in DOMAIN w.staging_vehicle_slot :
        /\ w.staging_vehicle_slot[k].resolved = TRUE
        /\ VehicleOfRow(w, w.staging_vehicle_slot[k])
              = w.vehicle_location[w.vehicle_slot[j].location_id].vehicle_id
        /\ w.staging_vehicle_slot[k].location_name
              = w.vehicle_location[w.vehicle_slot[j].location_id].name
        /\ w.staging_vehicle_slot[k].slot_index = w.vehicle_slot[j].slot_index
        /\ w.staging_vehicle_slot[k].raw_text = w.vehicle_slot[j].raw_text}}

\* C15: a WeaponInstance belongs to one Slot and exists only where a resolved
\* StagingRow with a weapon id was finalized into that Slot, with quantity 1
\* and that weapon id; a Slot finalized from such a row has exactly one, no
\* Slot has more than one, and a Slot of a component or empty row has none
\* (mechs and vehicles).
C15_WeaponInstanceRule ==
    /\ \A i \in DOMAIN db.weapon_instance : db.weapon_instance[i].slot_id \in DOMAIN db.slot
    /\ \A i \in DOMAIN db.vehicle_weapon_instance :
          db.vehicle_weapon_instance[i].slot_id \in DOMAIN db.vehicle_slot
    /\ \A j \in DOMAIN db.slot :
          InstanceRule(db.weapon_instance, j, MechSlotSources(db, j),
                       mtf_guess_parsed_type(db.slot[j].raw_text))
    /\ \A j \in DOMAIN db.vehicle_slot :
          InstanceRule(db.vehicle_weapon_instance, j, VehicleSlotSources(db, j),
                       blk_guess_parsed_type(db.vehicle_slot[j].raw_text))

\* a Slot of a component or empty row without an instance next to a Slot of a
\* weapon row with its instance
C15_Witness ==
    /\ last.op \in {"finalize_mech", "finalize_vehicle"}
    /\ \E j \in DOMAIN db.slot :
          /\ mtf_guess_parsed_type(db.slot[j].raw_text) \in {"component", "empty"}
          /\ InstancesOf(db.weapon_instance, j) = {}
    /\ \E j \in DOMAIN db.vehicle_slot :
          /\ Cardinality(InstancesOf(db.vehicle_weapon_instance, j)) = 1
          /\ \E s \in VehicleSlotSources(db, j) : s.resolution_hint = "alias"

\* the mechs / vehicles the external-id reference of a StagingRow names
MechsNamed(w, s) ==
    {m \in DOMAIN w.mech :
        /\ s.mech_external_id # NullStr
        /\ w.mech[m].mul_id # NULL
        /\ Str(w.mech[m].mul_id) = s.mech_external_id}

VehiclesNamed(w, s) ==
    {v \in DOMAIN w.vehicle :
        /\ s.vehicle_external_id # NullStr
        /\ IF IsIntLiteral(s.vehicle_external_id)
           THEN w.vehicle[v].mul_id # NULL /\ Str(w.vehicle[v].mul_id) = s.vehicle_external_id
           ELSE w.vehicle[v].name = s.vehicle_external_id}

\* the resolved rows the finalizer has to skip, and those it has to keep
Skipped(rows, Named(_)) == {i \in DOMAIN rows : rows[i].resolved = TRUE /\ Named(rows[i]) = {}}
Kept(rows, Named(_)) == {i \in DOMAIN rows : rows[i].resolved = TRUE /\ Named(rows[i]) # {}}

\* Slot j at Location loc of unit u stems from row s
SlotOfRow(slot, loc, u, s, Named(_)) ==
    /\ u \in Named(s)
    /\ loc.name = s.location_name
    /\ slot.slot_index = s.slot_index
    /\ slot.raw_text = s.raw_text

\* one finalization pass: every Location, Slot and WeaponInstance it creates
\* stems from a kept row, and every kept row has its Slot afterwards
SkipsOnlyUnitless(rows, Named(_), locs0, locs1, unit_of(_), slots0, slots1, wis0, wis1) ==
    /\ \A l \in (Len(locs0) + 1)..Len(locs1) :
          \E i \in Kept(rows, Named) :
              unit_of(locs1[l]) \in Named(rows[i]) /\ locs1[l].name = rows[i].location_name
    /\ \A j \in (Len(slots0) + 1)..Len(slots1) :
          \E i \in Kept(rows, Named) :
              SlotOfRow(slots1[j], locs1[slots1[j].location_id],
                        unit_of(locs1[slots1[j].location_id]), rows[i], Named)
    /\ \A k \in (Len(wis0) + 1)..Len(wis1) : wis1[k].slot_id > Len(slots0)
    /\ \A i \in Kept(rows, Named) :
          \E j \in DOMAIN slots1 :
              /\ unit_of(locs1[slots1[j].location_id]) \in Named(rows[i])
              /\ locs1[slots1[j].location_id].name = rows[i].location_name
              /\ slots1[j].slot_index = rows[i].slot_index

\* C16: a finalization pass skips a resolved StagingRow whose external-id
\* reference is absent or names no Unit, without raising: it creates no
\* Location, Slot or WeaponInstance for the row and finalizes the other rows
\* (mechs and vehicles).
C16_SkipsUnitless ==
    [][ /\ (last'.op = "finalize_mech"
              => SkipsOnlyUnitless(db.staging_slot, LAMBDA s : MechsNamed(db, s),
                    db.location, db'.location, LAMBDA l : l.mech_id,
                    db.slot, db'.slot, db.weapon_instance, db'.weapon_instance))
        /\ (last'.op = "finalize_vehicle"
              => SkipsOnlyUnitless(db.staging_vehicle_slot, LAMBDA s : VehiclesNamed(db, s),
                    db.vehicle_location, db'.vehicle_location, LAMBDA l : l.vehicle_id,
                    db.vehicle_slot, db'.vehicle_slot,
                    db.vehicle_weapon_instance, db'.vehicle_weapon_instance)) ]_vars

\* a pass that skipped the row of a mech without external id and then created
\* the Slot of the row after it
C16_Witness ==
    /\ last.op = "finalize_mech"
    /\ last.ret[1] = 1
    /\ Len(db.staging_slot) = 2
    /\ 1 \in Skipped(db.staging_slot, LAMBDA s : MechsNamed(db, s))
    /\ 2 \in Kept(db.staging_slot, LAMBDA s : MechsNamed(db, s))
    /\ Len(db.slot) = 1

\* the store after a failed document: as before it, plus one entry with a
\* status and a message under the name of the document
FailureRecorded(w0, w1, file) ==
    \E entry \in [file_name : {file}, status : {"failed"}, message : {"ingest_error"}] :
        w1 = [w0 EXCEPT !.loader_log = Append(@, entry)]

\* C17: when ingesting a document raises, the driver rolls the document's
\* writes back, persists a status/message entry naming the document, leaves
\* the records of the documents committed before as they were, and moves on
\* to the next document (mech and vehicle drivers).
C17_FailureIsolated ==
    [][ (last'.op \in {"ingest_mech", "ingest_vehicle"} /\ last'.raised)
        => /\ FailureRecorded(db, db', last'.file)
           /\ files' = files + 1 ]_vars

\* the pair a resolution pass from rows0 to rows1 has to return
NewlyResolved(rows0, rows1) ==
    Cardinality({i \in DOMAIN rows0 : rows0[i].resolved = FALSE /\ rows1[i].resolved = TRUE})

OutstandingTokens(rows1) ==
    {rows1[i].parsed_name : i \in {j \in DOMAIN rows1 :
        rows1[j].parsed_type = "weapon" /\ rows1[j].resolved = FALSE}}

\* C18: a resolution pass returns the number of StagingRows it took from
\* unresolved to resolved and the number of distinct normalized tokens among
\* the weapon rows still unresolved after it (mech and vehicle resolvers).
C18_ReturnPair ==
    [][ /\ (last'.op = "resolve_mech"
              => last'.ret = << NewlyResolved(db.staging_slot, db'.staging_slot),
                               Cardinality(OutstandingTokens(db'.staging_slot)) >>)
        /\ (last'.op = "resolve_vehicle"
              => last'.ret = << NewlyResolved(db.staging_vehicle_slot, db'.staging_vehicle_slot),
                               Cardinality(OutstandingTokens(db'.staging_vehicle_slot)) >>) ]_vars

\* the category the stated precedence gives a line: empty sentinel, ammo
\* vocabulary, weapon keywords, component keywords, otherwise unknown
ByPrecedence(is_empty, is_ammo, is_weapon, is_component) ==
    IF is_empty THEN "empty"
    ELSE IF is_ammo THEN "ammo"
    ELSE IF is_weapon THEN "weapon"
    ELSE IF is_component THEN "component"
    ELSE "unknown"

RulesMatched(is_empty, is_ammo, is_weapon, is_component) ==
    (IF is_empty THEN 1 ELSE 0) + (IF is_ammo THEN 1 ELSE 0)
    + (IF is_weapon THEN 1 ELSE 0) + (IF is_component THEN 1 ELSE 0)

\* C19: every staged line carries exactly one category, the one of the
\* earliest matching rule in the order empty sentinel (case-insensitive
\* membership), ammo vocabulary, weapon keywords, component keywords, and
\* unknown when no rule matches (mech and vehicle classifiers).
C19_ClassifierPrecedence ==
    /\ \A i \in DOMAIN db.staging_slot :
          LET t == Lower(db.staging_slot[i].raw_text) IN
          db.staging_slot[i].parsed_type
            = ByPrecedence(t \in LowerEmptyVariants, MatchesAmmo(t),
                           MatchesMtfWeapon(t), MatchesMtfComponent(t))
    /\ \A i \in DOMAIN db.staging_vehicle_slot :
          LET t == Lower(db.staging_vehicle_slot[i].raw_text) IN
          db.staging_vehicle_slot[i].parsed_type
            = ByPrecedence(t \in LowerEmptyVariants, MatchesAmmo(t),
                           MatchesBlkWeapon(t), MatchesBlkComponent(t))

\* staged: a line that two rules match, and an empty sentinel in capitals
C19_Witness ==
    /\ Len(db.staging_slot) = 1 /\ Len(db.staging_vehicle_slot) = 1
    /\ LET t == Lower(db.staging_slot[1].raw_text) IN
          /\ RulesMatched(t \in LowerEmptyVariants, MatchesAmmo(t),
                          MatchesMtfWeapon(t), MatchesMtfComponent(t)) = 2
          /\ db.staging_slot[1].parsed_type = "ammo"
    /\ db.staging_vehicle_slot[1].raw_text = "- EMPTY -"
    /\ db.staging_vehicle_slot[1].parsed_type = "empty"

\* the store holds the one Unit of the scenario, staged and nothing else
ScenarioStaged(w) ==
    /\ Len(w.mech) = 1
    /\ [i \in DOMAIN w.staging_slot |-> w.staging_slot[i].raw_text] = ScenarioLines
    /\ \A i \in DOMAIN w.staging_slot : w.staging_slot[i].location_name = "Head"

ScenarioHints(w) ==
    [i \in DOMAIN w.staging_slot |->
        IF w.staging_slot[i].resolved THEN w.staging_slot[i].resolution_hint ELSE "unresolved"]

\* one resolution pass with large laser a canonical weapon resolves the 3 rows
ScenarioResolves ==
    (/\ last'.op = "resolve_mech"
     /\ ScenarioStaged(db)
     /\ \A i \in DOMAIN db.staging_slot : db.staging_slot[i].resolved = FALSE
     /\ WeaponByName(db, "large laser") # 0)
    => /\ ScenarioHints(db') = <<"exact", "empty", "component">>
       /\ last'.ret[1] = 3

\* one finalization pass over the 3 resolved rows creates 3 Slots and 1
\* WeaponInstance
ScenarioFinalizes ==
    /\ ScenarioHints(db) = <<"exact", "empty", "component">>
    /\ db.slot = <<>>
    /\ last'.op = "finalize_mech"
    => /\ last'.ret = <<3, 1>>
       /\ Len(db'.slot) = 3
       /\ Len(db'.weapon_instance) = 1

\* C20 as stated: for a Unit with one location whose lines are Large Laser,
\* -Empty-, Jump Jet, with large laser a canonical weapon: one resolution pass
\* resolves the 3 rows (exact, empty, component) and one finalization pass
\* creates 3 Slots and 1 WeaponInstance.
C20_Scenario ==
    [][ /\ ScenarioResolves
        /\ (ScenarioStaged(db) => ScenarioFinalizes) ]_vars

\* C20, amended: the same for a Unit that carries an external id (mul_id);
\* for a Unit without one the 3 rows resolve and finalization creates nothing.
C20_ScenarioWithExternalId ==
    [][ /\ ScenarioResolves
        /\ (ScenarioStaged(db) /\ db.mech[1].mul_id # NULL => ScenarioFinalizes)
        /\ (/\ ScenarioStaged(db) /\ db.mech[1].mul_id = NULL
            /\ last'.op = "finalize_mech"
            => last'.ret = <<0, 0>> /\ db'.slot = <<>>) ]_vars

\* the scenario run to its end: 3 resolved rows, 3 Slots, 1 WeaponInstance
C20_Witness ==
    /\ last.op = "finalize_mech"
    /\ last.ret = <<3, 1>>
    /\ ScenarioStaged(db)
    /\ ScenarioHints(db) = <<"exact", "empty", "component">>
    /\ Len(db.slot) = 3
    /\ Len(db.weapon_instance) = 1

\* the rows of a staging table whose text is a spelling of the empty sentinel
SentinelRows(rows) == {i \in DOMAIN rows : Lower(rows[i].raw_text) \in LowerEmptyVariants}

\* staged as empty, with a null normalized token
StagedEmpty(rows) ==
    \A i \in SentinelRows(rows) :
        rows[i].parsed_type = "empty" /\ rows[i].parsed_name = NullStr

\* a Slot with note Empty and without WeaponInstance for sentinel row s of unit u
EmptySlotOf(s, u, locs, unit_of(_), slots, wis) ==
    \E j \in DOMAIN slots :
        /\ unit_of(locs[slots[j].location_id]) = u
        /\ locs[slots[j].location_id].name = s.location_name
        /\ slots[j].slot_index = s.slot_index
        /\ slots[j].note = "Empty"
        /\ InstancesOf(wis, j) = {}

\* C21: an equipment line that is a spelling of the empty sentinel, in any
\* letter case, is classified empty with a null normalized token; a
\* resolution pass resolves it and a finalization pass then gives it, when
\* its Unit is found, a Slot with note Empty and no WeaponInstance (mechs and
\* vehicles).
C21_EmptySentinel ==
    [][ /\ StagedEmpty(db'.staging_slot) /\ StagedEmpty(db'.staging_vehicle_slot)
        /\ (last'.op = "resolve_mech"
              => \A i \in SentinelRows(db'.staging_slot) : db'.staging_slot[i].resolved)
        /\ (last'.op = "resolve_vehicle"
              => \A i \in SentinelRows(db'.staging_vehicle_slot) :
                    db'.staging_vehicle_slot[i].resolved)
        /\ (last'.op = "finalize_mech"
              => \A i \in SentinelRows(db.staging_slot) :
                    \A u \in MechsNamed(db, db.staging_slot[i]) :
                        db.staging_slot[i].resolved
                        => EmptySlotOf(db.staging_slot[i], u, db'.location,
                                       LAMBDA l : l.mech_id, db'.slot, db'.weapon_instance))
        /\ (last'.op = "finalize_vehicle"
              => \A i \in SentinelRows(db.staging_vehicle_slot) :
                    \A u \in VehiclesNamed(db, db.staging_vehicle_slot[i]) :
                        db.staging_vehicle_slot[i].resolved
                        => EmptySlotOf(db.staging_vehicle_slot[i], u, db'.vehicle_location,
                                       LAMBDA l : l.vehicle_id, db'.vehicle_slot,
                                       db'.vehicle_weapon_instance)) ]_vars

\* the numeric lines of an armor block, in order
NumericLines(block) == SelectSeq(block, IsIntLiteral)

ArmorAt(w, location) ==
    {i \in DOMAIN w.vehicle_armor : w.vehicle_armor[i].location = location}

\* C22: the integer values of an armor block are stored positionally as
\* front, left, right, rear, turret: the i-th numeric line (i from 1 to 5) is
\* the armor of the i-th location, non-numeric lines take no position, and
\* values after the fifth are stored nowhere.
C22_ArmorPositional ==
    last.op = "ingest_vehicle" /\ "raw_text" \in DOMAIN last.parsed
    => LET nums == NumericLines(last.parsed.raw_text[2].content_lines)
           n == IF Len(nums) < 5 THEN Len(nums) ELSE 5
       IN  /\ ~last.raised
           /\ Len(db.vehicle_armor) = n
           /\ \A i \in 1..n :
                 \E k \in DOMAIN db.vehicle_armor :
                     /\ ArmorAt(db, armor_locations[i]) = {k}
                     /\ db.vehicle_armor[k].points = ParseInt(nums[i])
                     /\ db.vehicle_armor[k].vehicle_id = last.unit_id

\* the block 10, 8, 8, 5, 6, 99 stored: five values, 99 nowhere
C22_Witness ==
    /\ last.op = "ingest_vehicle"
    /\ "raw_text" \in DOMAIN last.parsed
    /\ last.parsed.raw_text[2].content_lines = <<"10", "8", "8", "5", "6", "99">>
    /\ [i \in DOMAIN db.vehicle_armor |-> db.vehicle_armor[i].points] = <<10, 8, 8, 5, 6>>
    /\ [i \in DOMAIN db.vehicle_armor |-> db.vehicle_armor[i].location] = armor_locations

\* C23: for both grammars a key or tag the parser does not recognize is kept
\* with its content in the parsed unit's generic map (the content of the last
\* line or tag of that key where the key is repeated).
MtfKnownKeys == {"chassis", "mul id"}

BlkKnownTags == {"name", "mul id:"}

LastWithKey(text, key) ==
    CHOOSE i \in 1..Len(text) :
        /\ Lower(text[i].name) = key
        /\ \A j \in (i + 1)..Len(text) : Lower(text[j].name) # key

KeptInGenericMap(parsed, key, content) ==
    /\ "specs" \in DOMAIN parsed
    /\ <<key, content>> \in parsed.specs

C23_MtfUnknownKept ==
    last.op = "parse_mtf"
    => \A i \in 1..Len(last.parsed.raw_text) :
          LET text == last.parsed.raw_text
              key == Lower(text[i].name)
          IN  key \notin MtfKnownKeys
              => KeptInGenericMap(last.parsed, key, text[LastWithKey(text, key)].val)

C23_BlkUnknownKept ==
    last.op = "parse_blk"
    => \A i \in 1..Len(last.parsed.raw_text) :
          LET text == last.parsed.raw_text
              key == Lower(text[i].name)
          IN  key \notin BlkKnownTags
              => KeptInGenericMap(last.parsed, key,
                                  TagContent(text[LastWithKey(text, key)].content_lines))

C23_UnknownKept == C23_MtfUnknownKept /\ C23_BlkUnknownKept

C23_MtfWitness ==
    /\ last.op = "parse_mtf"
    /\ last.parsed.chassis = "Atlas"
    /\ last.parsed.specs = {<<"foo", "x">>}

\* C24: at most one job per key (unit kind, name, variant, type filter) is
\* pending, processing or done; enqueuing a key that has such a job returns
\* that job and adds no row, and a row is added only when every job of the key
\* is failed or there is none.
JobKey(j) == <<j.unit_kind, j.name, j.variant, j.mul_type>>

ActiveJobs(w, key) ==
    {i \in DOMAIN w.bv_pv_job :
        /\ JobKey(w.bv_pv_job[i]) = key
        /\ w.bv_pv_job[i].status \in {"pending", "processing", "done"}}

C24_OneActiveJobPerKey ==
    [][ /\ \A i \in DOMAIN db'.bv_pv_job :
              Cardinality(ActiveJobs(db', JobKey(db'.bv_pv_job[i]))) <= 1
        /\ last'.op = "enqueue"
            => LET key == JobKey(last'.parsed)
               IN  /\ ActiveJobs(db, key) # {}
                      => /\ last'.unit_id \in ActiveJobs(db, key)
                         /\ db'.bv_pv_job = db.bv_pv_job
                   /\ Len(db'.bv_pv_job) > Len(db.bv_pv_job)
                      => \A i \in DOMAIN db.bv_pv_job :
                            JobKey(db.bv_pv_job[i]) = key
                            => db.bv_pv_job[i].status = "failed" ]_vars

C24_Witness ==
    /\ last.op = "enqueue"
    /\ last.unit_id = 2
    /\ Len(db.bv_pv_job) = 2
    /\ JobKey(db.bv_pv_job[1]) = JobKey(db.bv_pv_job[2])
    /\ db.bv_pv_job[1].status = "failed"
    /\ db.bv_pv_job[2].status = "done"

\* C25: fetch_bv_pv_from_pull never raises, and returns (None, None) whenever
\* the helper script is missing, cannot be run, exits with a non-zero code,
\* prints nothing, or prints output that yields no BV/PV record.
YieldsRecord(out) ==
    out \in { "[{\"BV\": \"2,340\"}]", "[{\"BV\": \"2,340\", \"PV\": \"55\"}]",
              "log [{\"pv\": \"55\"}] done" }

C25_FetchNeverRaises ==
    last.op = "process_job"
    => /\ ~last.ret.raised
       /\ (\/ ~last.parsed.exists
           \/ ~last.parsed.ran
           \/ last.parsed.returncode # 0
           \/ ~YieldsRecord(last.parsed.stdout))
          => (last.ret.bv = NULL /\ last.ret.pv = NULL)

\* the same for every output whose first entry is a JSON object
C25_FetchOnObjects ==
    (last.op = "process_job" /\ last.parsed.stdout # "[1]")
    => /\ ~last.ret.raised
       /\ (\/ ~last.parsed.exists
           \/ ~last.parsed.ran
           \/ last.parsed.returncode # 0
           \/ ~YieldsRecord(last.parsed.stdout))
          => (last.ret.bv = NULL /\ last.ret.pv = NULL)

\* C30: a job's status only moves pending to processing to done or failed;
\* process_job raises attempts by exactly one and ends with the job done (a BV
\* or PV value stored) or failed (last_error set); the worker fetches and
\* processes pending jobs only.
StatusMoves ==
    { <<"pending", "processing">>, <<"processing", "done">>, <<"processing", "failed">> }

C30_JobLifecycle ==
    [][ /\ \A i \in DOMAIN db.bv_pv_job :
              \/ db'.bv_pv_job[i].status = db.bv_pv_job[i].status
              \/ <<db.bv_pv_job[i].status, db'.bv_pv_job[i].status>> \in StatusMoves
        /\ last'.op = "fetch_next_jobs"
            => \A k \in DOMAIN last'.staging_ids :
                  db.bv_pv_job[last'.staging_ids[k]].status = "pending"
        /\ last'.op = "process_job_begin"
            => /\ db.bv_pv_job[last'.unit_id].status = "pending"
               /\ db'.bv_pv_job[last'.unit_id].attempts
                    = db.bv_pv_job[last'.unit_id].attempts + 1
        /\ last'.op = "process_job"
            => LET job == db'.bv_pv_job[last'.unit_id]
               IN  /\ job.attempts = db.bv_pv_job[last'.unit_id].attempts
                   /\ job.status \in {"done", "failed"}
                   /\ job.status = "done" => (job.bv # NULL \/ job.pv # NULL)
                   /\ job.status = "failed" => job.last_error # NullStr ]_vars

C30_Witness ==
    /\ last.op = "process_job"
    /\ Len(db.bv_pv_job) = 2
    /\ db.bv_pv_job[1].status = "done"
    /\ db.bv_pv_job[1].attempts = 1
    /\ db.bv_pv_job[1].pv = 55
    /\ db.bv_pv_job[2].status = "failed"
    /\ db.bv_pv_job[2].last_error = "no data returned"
    /\ worker = IdleWorker

\* C26: for skills in 0..8 compute_adjusted_bv returns the multiplier
\* get_multiplier_for(target) / get_multiplier_for(base) and adjusted_bv equal
\* to base_bv times that multiplier rounded to the nearest integer; the table
\* multiplier of the baseline skills (4, 5) is 1.00.
Abs(x) == IF x < 0 THEN 0 - x ELSE x

C26_AdjustedBv ==
    /\ get_multiplier_for(4, 5) = 1000
    /\ last.op = "compute_adjusted_bv"
        => LET call == last.parsed
               num == last.ret.multiplier[1]
               den == last.ret.multiplier[2]
           IN  /\ num = get_multiplier_for(call.target_g, call.target_p)
               /\ den = get_multiplier_for(call.base_g, call.base_p)
               /\ 2 * Abs(last.ret.adjusted_bv * den - call.base_bv * num) <= den
               /\ (call.base_g = 4 /\ call.base_p = 5) => den = 1000

C26_Witness ==
    /\ last.op = "compute_adjusted_bv"
    /\ last.parsed = [base_bv |-> 2340, base_g |-> 5, base_p |-> 4, target_g |-> 4,
                      target_p |-> 5]
    /\ last.ret.adjusted_bv = 2364

\* C27: after a finalization pass every resolved StagingRow whose Unit is
\* found has a Slot at the Location of that Unit with the row's location name
\* and at the row's slot index (mechs and vehicles).
HasSlotAt(locs, slots, unit_of(_), u, s) ==
    \E j \in DOMAIN slots :
        /\ unit_of(locs[slots[j].location_id]) = u
        /\ locs[slots[j].location_id].name = s.location_name
        /\ slots[j].slot_index = s.slot_index

C27_ResolvedRowsHaveSlots ==
    /\ last.op = "finalize_mech"
        => \A i \in DOMAIN db.staging_slot :
              LET s == db.staging_slot[i]
              IN  (s.resolved = TRUE /\ MechOfRow(db, s) # 0)
                  => HasSlotAt(db.location, db.slot, LAMBDA l : l.mech_id,
                               MechOfRow(db, s), s)
    /\ last.op = "finalize_vehicle"
        => \A i \in DOMAIN db.staging_vehicle_slot :
              LET s == db.staging_vehicle_slot[i]
              IN  (s.resolved = TRUE /\ VehicleOfRow(db, s) # 0)
                  => HasSlotAt(db.vehicle_location, db.vehicle_slot, LAMBDA l : l.vehicle_id,
                               VehicleOfRow(db, s), s)

\* a pass that created the Slot of a resolved component row of a mech
C27_Witness ==
    /\ last.op = "finalize_mech"
    /\ last.ret = <<1, 0>>
    /\ \E i \in DOMAIN db.staging_slot :
          /\ db.staging_slot[i].resolved = TRUE
          /\ db.staging_slot[i].resolution_hint = "component"
          /\ MechOfRow(db, db.staging_slot[i]) = owner.mech[i]
          /\ HasSlotAt(db.location, db.slot, LAMBDA l : l.mech_id, owner.mech[i],
                       db.staging_slot[i])

\* C28: Slots are created by finalization only, each from a StagingRow that
\* is resolved at that time and gives the Slot its location name, slot index
\* and raw text; a finalization pass over rows none of which is resolved
\* creates no Slot and no WeaponInstance.
FromResolvedRow(rows, locs1, slot) ==
    \E i \in DOMAIN rows :
        /\ rows[i].resolved = TRUE
        /\ locs1[slot.location_id].name = rows[i].location_name
        /\ slot.slot_index = rows[i].slot_index
        /\ slot.raw_text = rows[i].raw_text

NoneResolved(rows) == \A i \in DOMAIN rows : rows[i].resolved # TRUE

C28_SlotsFromResolvedRows ==
    [][ /\ last'.op # "finalize_mech"
            => (db'.slot = db.slot /\ db'.weapon_instance = db.weapon_instance)
        /\ last'.op # "finalize_vehicle"
            => /\ db'.vehicle_slot = db.vehicle_slot
               /\ db'.vehicle_weapon_instance = db.vehicle_weapon_instance
        /\ last'.op = "finalize_mech"
            => /\ \A j \in (Len(db.slot) + 1)..Len(db'.slot) :
                     FromResolvedRow(db.staging_slot, db'.location, db'.slot[j])
               /\ NoneResolved(db.staging_slot)
                    => (db'.slot = db.slot /\ db'.weapon_instance = db.weapon_instance)
        /\ last'.op = "finalize_vehicle"
            => /\ \A j \in (Len(db.vehicle_slot) + 1)..Len(db'.vehicle_slot) :
                     FromResolvedRow(db.staging_vehicle_slot, db'.vehicle_location,
                                     db'.vehicle_slot[j])
               /\ NoneResolved(db.staging_vehicle_slot)
                    => /\ db'.vehicle_slot = db.vehicle_slot
                       /\ db'.vehicle_weapon_instance = db.vehicle_weapon_instance ]_vars

\* a pass that created one Slot and left the unresolved row of the same
\* vehicle without one
C28_Witness ==
    /\ last.op = "finalize_vehicle"
    /\ last.ret = <<1, 1>>
    /\ Len(db.staging_vehicle_slot) = 2
    /\ Len(db.vehicle_slot) = 1
    /\ \E i \in DOMAIN db.staging_vehicle_slot : db.staging_vehicle_slot[i].resolved # TRUE

\* C29: every Slot a finalization pass creates lies in a Location of the Unit
\* whose ingestion staged the Slot's source row (mechs and vehicles).
OwnedSource(rows, owners, locs1, unit_of(_), slot) ==
    \E i \in DOMAIN rows :
        /\ rows[i].resolved = TRUE
        /\ locs1[slot.location_id].name = rows[i].location_name
        /\ slot.slot_index = rows[i].slot_index
        /\ slot.raw_text = rows[i].raw_text
        /\ unit_of(locs1[slot.location_id]) = owners[i]

C29_MechSlotsOwned ==
    [][ last'.op = "finalize_mech"
        => \A j \in (Len(db.slot) + 1)..Len(db'.slot) :
              OwnedSource(db.staging_slot, owner.mech, db'.location,
                          LAMBDA l : l.mech_id, db'.slot[j]) ]_vars

C29_VehicleSlotsOwned ==
    [][ last'.op = "finalize_vehicle"
        => \A j \in (Len(db.vehicle_slot) + 1)..Len(db'.vehicle_slot) :
              OwnedSource(db.staging_vehicle_slot, owner.vehicle, db'.vehicle_location,
                          LAMBDA l : l.vehicle_id, db'.vehicle_slot[j]) ]_vars

C29_SlotsOwned ==
    [][ /\ last'.op = "finalize_mech"
            => \A j \in (Len(db.slot) + 1)..Len(db'.slot) :
                  OwnedSource(db.staging_slot, owner.mech, db'.location,
                              LAMBDA l : l.mech_id, db'.slot[j])
        /\ last'.op = "finalize_vehicle"
            => \A j \in (Len(db.vehicle_slot) + 1)..Len(db'.vehicle_slot) :
                  OwnedSource(db.staging_vehicle_slot, owner.vehicle, db'.vehicle_location,
                              LAMBDA l : l.vehicle_id, db'.vehicle_slot[j]) ]_vars

====
